---------------------------- MODULE Spec2Model ----------------------------
(***************************************************************************)
(* CuboHorarios: the ETL of academic schedules (ETL.py) and the OLAP cube  *)
(* built over its star schema (cubo_horarios_olap.py).                     *)
(*                                                                         *)
(* Texts are sequences of one-character strings, so that regular           *)
(* expressions, split, title() and substring search are computed on the    *)
(* characters.  A time cell is a record: a datetime.time or a timedelta,   *)
(* both in seconds since midnight, or NaT.  An absent text is None (Python *)
(* None, NULL) or NaNTxt (the NaN a merge or a categorical leaves in a     *)
(* text column); an absent number (NaN, NULL) is the value NaN.            *)
(***************************************************************************)
EXTENDS Integers, Sequences, FiniteSets, TLC

VARIABLES
    pc,               \* where the program is
    call,             \* the last call of a pure function: [fn, arg, ret]
    raw,              \* the rows extract_all returned
    curated,          \* transform_all: the curated rows
    dim_docente,      \* the four dimension tables and the fact table
    dim_materia,
    dim_espacio,
    dim_tiempo,
    hechos,
    err,              \* the exception an operation ended with, or "ok"
    cubo,             \* Horario_cubo.cubo
    result,           \* what the last query returned
    db                \* the MySQL store: its tables and the connections opened

vars == <<pc, call, raw, curated, dim_docente, dim_materia, dim_espacio,
          dim_tiempo, hechos, err, cubo, result, db>>

---------------------------------------------------------------------------
(* Absent values *)

None == << "<None>" >>
NaN == 0 - 1

\* NaN in a text column (what a left merge leaves where no row matched), and
\* the test pd.isna of a text cell
NaNTxt == << "<NaN>" >>
IsNull(v) == v = None \/ v = NaNTxt
NaT == [tipo |-> "NaT", seg |-> 0]

\* datetime.time and datetime.timedelta, in seconds since midnight
Time(seg) == [tipo |-> "time", seg |-> seg]
Timedelta(seg) == [tipo |-> "timedelta", seg |-> seg]

---------------------------------------------------------------------------
(* Characters.  A character outside ASCII is written by its code point. *)

ENDASH == "u2013"      \* the en dash
A_ACUTE == "u00E1"     \* a with acute accent

DIGITS == <<"0", "1", "2", "3", "4", "5", "6", "7", "8", "9">>
UPPERS == <<"A", "B", "C", "D", "E", "F", "G", "H", "I", "J", "K", "L", "M",
            "N", "O", "P", "Q", "R", "S", "T", "U", "V", "W", "X", "Y", "Z">>
LOWERS == <<"a", "b", "c", "d", "e", "f", "g", "h", "i", "j", "k", "l", "m",
            "n", "o", "p", "q", "r", "s", "t", "u", "v", "w", "x", "y", "z">>

Range(s) == {s[i] : i \in DOMAIN s}

IsDigit(c) == c \in Range(DIGITS)
IsUpper(c) == c \in Range(UPPERS)
IsLower(c) == c \in Range(LOWERS)
IsAlpha(c) == IsUpper(c) \/ IsLower(c)
IsSpace(c) == c \in {" ", "\t", "\n"}

DigitVal(c) == (CHOOSE i \in DOMAIN DIGITS : DIGITS[i] = c) - 1
Lower(c) == IF IsUpper(c) THEN LOWERS[CHOOSE i \in DOMAIN UPPERS : UPPERS[i] = c] ELSE c
Upper(c) == IF IsLower(c) THEN UPPERS[CHOOSE i \in DOMAIN LOWERS : LOWERS[i] = c] ELSE c

\* str.lower()
lower(s) == [i \in DOMAIN s |-> Lower(s[i])]

\* the characters of s that satisfy keep, in order
RECURSIVE Without(_, _)
Without(s, drop) ==
    IF s = <<>> THEN <<>>
    ELSE IF Head(s) \in drop THEN Without(Tail(s), drop)
         ELSE <<Head(s)>> \o Without(Tail(s), drop)

\* s[from..] (1-based), the empty text when from is past the end
From(s, from) == SubSeq(s, from, Len(s))

---------------------------------------------------------------------------
(* parse_hora *)

\* re.sub(r"\s+", "", rango.strip())
SinEspacios(rango) == Without(rango, {" ", "\t", "\n"})

\* (\d{1,2}):?(\d{2}) at position p of s, the hour taking n digits.
\* The result is <<matched, hour, minute, next position>>.
HoraMinuto(s, p, n) ==
    LET q == p + n
        c == IF q <= Len(s) /\ s[q] = ":" THEN q + 1 ELSE q
    IN IF /\ p + n - 1 <= Len(s)
          /\ \A i \in p..(p + n - 1) : IsDigit(s[i])
          /\ c + 1 <= Len(s)
          /\ IsDigit(s[c]) /\ IsDigit(s[c + 1])
       THEN <<TRUE,
              IF n = 2 THEN 10 * DigitVal(s[p]) + DigitVal(s[p + 1]) ELSE DigitVal(s[p]),
              10 * DigitVal(s[c]) + DigitVal(s[c + 1]),
              c + 2>>
       ELSE <<FALSE, 0, 0, 0>>

\* re.match(r"(\d{1,2}):?(\d{2})[-<en dash>](\d{1,2}):?(\d{2})", s): the groups of the
\* first alternative the backtracking matcher accepts (greedy: two hour digits
\* before one), or <<FALSE>> when there is no match.  The match is anchored at
\* the start only.
ReMatchHora(s) ==
    LET DIGITOS == <<<<2, 2>>, <<2, 1>>, <<1, 2>>, <<1, 1>>>>
        Segunda(a, n2) ==
            IF a[1] /\ a[4] <= Len(s) /\ s[a[4]] \in {"-", ENDASH}
            THEN CHOOSE g \in {IF b[1] THEN <<TRUE, a[2], a[3], b[2], b[3]>>
                               ELSE <<FALSE>> : b \in {HoraMinuto(s, a[4] + 1, n2)}} : TRUE
            ELSE <<FALSE>>
        Try(d) == CHOOSE g \in {Segunda(a, d[2]) : a \in {HoraMinuto(s, 1, d[1])}} : TRUE
        todos == [k \in DOMAIN DIGITOS |-> Try(DIGITOS[k])]
    IN CHOOSE g \in {IF \E k \in DOMAIN t : t[k][1]
                     THEN t[CHOOSE k \in DOMAIN t :
                                t[k][1] /\ \A j \in 1..(k - 1) : ~t[j][1]]
                     ELSE <<FALSE>> : t \in {todos}} : TRUE

\* pd.to_datetime(f"{h:02d}:{m:02d}", format="%H:%M", errors="coerce"):
\* the time of day in seconds, NaN (NaT) when the hour or the minute is out of range
ToDatetimeHM(h, m) == IF h <= 23 /\ m <= 59 THEN h * 3600 + m * 60 ELSE NaN

TresNone == <<NaT, NaT, NaN>>

\* parse_hora accepting an end equal to the start (duracion < 0 for <= 0)
parse_hora_acepta_cero(rango) ==
    IF rango = None THEN TresNone
    ELSE CHOOSE t \in
             {IF ~m[1] THEN TresNone
              ELSE LET start == ToDatetimeHM(m[2], m[3])
                       end == ToDatetimeHM(m[4], m[5])
                       duracion == (end - start) \div 60
                   IN IF start = NaN \/ end = NaN THEN TresNone
                      ELSE IF duracion < 0 THEN TresNone
                      ELSE <<Time(start), Time(end), duracion>>
              : m \in {ReMatchHora(SinEspacios(rango))}} : TRUE

parse_hora(rango) ==
    IF rango = None THEN TresNone
    ELSE CHOOSE t \in
             {IF ~m[1] THEN TresNone
              ELSE LET start == ToDatetimeHM(m[2], m[3])
                       end == ToDatetimeHM(m[4], m[5])
                       duracion == (end - start) \div 60
                   IN IF start = NaN \/ end = NaN THEN TresNone
                      ELSE IF duracion <= 0 THEN TresNone
                      ELSE <<Time(start), Time(end), duracion>>
              : m \in {ReMatchHora(SinEspacios(rango))}} : TRUE

---------------------------------------------------------------------------
(* explotar_por_dia *)

\* str(x) of a cell: a text is itself, None prints as "None", NaN as "nan"
str(x) ==
    IF x = None THEN <<"N", "o", "n", "e">>
    ELSE IF x = NaNTxt THEN <<"n", "a", "n">>
    ELSE x

\* s.split(sep) for a one-character separator
RECURSIVE Split(_, _)
Split(s, sep) ==
    IF \A i \in DOMAIN s : s[i] # sep THEN <<s>>
    ELSE LET k == CHOOSE i \in DOMAIN s : s[i] = sep /\ \A j \in 1..(i - 1) : s[j] # sep
         IN <<SubSeq(s, 1, k - 1)>> \o Split(SubSeq(s, k + 1, Len(s)), sep)

\* list(s): one one-character text per character
RECURSIVE Chars(_)
Chars(s) == IF s = <<>> THEN <<>> ELSE <<(<<Head(s)>>)>> \o Chars(Tail(s))

Lunes == <<"L", "u", "n", "e", "s">>
Martes == <<"M", "a", "r", "t", "e", "s">>
Miercoles == <<"M", "i", "e", "r", "c", "o", "l", "e", "s">>
Jueves == <<"J", "u", "e", "v", "e", "s">>
Viernes == <<"V", "i", "e", "r", "n", "e", "s">>
SabadoConAcento == <<"S", A_ACUTE, "b", "a", "d", "o">>

\* DIA_MAP.get(d, d)
DIA_MAP(d) ==
    CASE d = <<"L">> -> Lunes
      [] d = <<"A">> -> Martes
      [] d = <<"M">> -> Miercoles
      [] d = <<"J">> -> Jueves
      [] d = <<"V">> -> Viernes
      [] d = <<"S">> -> SabadoConAcento
      [] OTHER -> d

\* the rows of one source row: one copy per token, with its day code and name
RECURSIVE FilasDe(_, _)
FilasDe(row, tokens) ==
    IF tokens = <<>> THEN <<>>
    ELSE <<[dia_codigo |-> Head(tokens), dia_semana |-> DIA_MAP(Head(tokens))] @@ row>>
         \o FilasDe(row, Tail(tokens))

\* the tokens of a day cell taking every character as a token (the comma split forgotten)
TokensDe_sin_comas(celda) == Chars(Without(str(celda), {" "}))

\* dias = str(row["dias"]).replace(" ", ""); dias.split(",") if "," in dias else list(dias)
TokensDe(celda) ==
    LET dias == Without(str(celda), {" "})
    IN IF "," \in Range(dias) THEN Split(dias, ",") ELSE Chars(dias)

RECURSIVE explotar_por_dia(_)
explotar_por_dia(df) ==
    IF df = <<>> THEN <<>>
    ELSE FilasDe(Head(df), TokensDe(Head(df).dias)) \o explotar_por_dia(Tail(df))

---------------------------------------------------------------------------
(* normalizar_profesor *)

\* re.sub(r"\s+", " ", x): every run of white space becomes one space
RECURSIVE Colapsar(_)
Colapsar(x) ==
    IF x = <<>> THEN <<>>
    ELSE IF IsSpace(Head(x))
         THEN IF Len(x) >= 2 /\ IsSpace(x[2]) THEN Colapsar(Tail(x))
              ELSE <<" ">> \o Colapsar(Tail(x))
         ELSE <<Head(x)>> \o Colapsar(Tail(x))

\* str.strip()
RECURSIVE Strip(_)
Strip(x) ==
    IF x = <<>> THEN <<>>
    ELSE IF IsSpace(Head(x)) THEN Strip(Tail(x))
    ELSE IF IsSpace(x[Len(x)]) THEN Strip(SubSeq(x, 1, Len(x) - 1))
    ELSE x

\* x.replace(" - ", " ")
RECURSIVE QuitarGuion(_)
QuitarGuion(x) ==
    IF Len(x) < 3 THEN x
    ELSE IF SubSeq(x, 1, 3) = <<" ", "-", " ">> THEN <<" ">> \o QuitarGuion(From(x, 4))
    ELSE <<Head(x)>> \o QuitarGuion(Tail(x))

\* str.title(): a letter after a non-letter is upper case, after a letter lower case
Title(x) ==
    [i \in DOMAIN x |->
        IF i = 1 \/ ~IsAlpha(x[i - 1]) THEN Upper(x[i]) ELSE Lower(x[i])]

normalizar_profesor(x) ==
    IF x = None THEN None
    ELSE LET t == Title(QuitarGuion(Strip(Colapsar(x))))
         IN IF t = <<>> THEN <<>> ELSE t

---------------------------------------------------------------------------
(* split_salon *)

IsWord(c) == IsAlpha(c) \/ IsDigit(c) \/ c = "_" \/ c = A_ACUTE

\* the length of the longest prefix of s whose characters all satisfy Test
Prefijo(s, Test(_)) ==
    LET ok == {n \in 0..Len(s) : \A i \in 1..n : Test(s[i])}
    IN CHOOSE n \in ok : \A m \in ok : m <= n

\* re.match(r"([^/]+)/?(\w+)?", s): <<matched, group 1, group 2>>
ReMatchSalon(s) ==
    LET NoBarra(c) == c # "/"
        n == Prefijo(s, NoBarra)
        resto == IF n < Len(s) THEN From(s, n + 2) ELSE <<>>
        w == Prefijo(resto, IsWord)
    IN IF n = 0 THEN <<FALSE, None, None>>
       ELSE <<TRUE, SubSeq(s, 1, n), IF w = 0 THEN None ELSE SubSeq(resto, 1, w)>>

\* <<edificio, aula, codigo_salon>>
split_salon(celda) ==
    IF celda = None THEN <<None, None, None>>
    ELSE LET s == Strip(celda)
             m == ReMatchSalon(s)
         IN IF ~m[1] THEN <<s, None, s>> ELSE <<m[2], m[3], s>>

---------------------------------------------------------------------------
(* Frames: a frame is a sequence of rows, a row a record of its columns *)

\* df[cols] of one row
Proj(r, cols) == [c \in cols |-> r[c]]

\* drop_duplicates(): the first row of each distinct value-tuple, in order
RECURSIVE DropDuplicates(_)
DropDuplicates(df) ==
    IF df = <<>> THEN <<>>
    ELSE LET antes == DropDuplicates(SubSeq(df, 1, Len(df) - 1))
             r == df[Len(df)]
         IN IF \E i \in DOMAIN antes : antes[i] = r THEN antes ELSE Append(antes, r)

\* the frame of f(row) for each row
MapFrame(df, F(_)) ==
    IF df = <<>> THEN <<>> ELSE [i \in 1..Len(df) |-> F(df[i])]

\* the absent value of a column, by the column's type
COLS_NUM == {"id_docente", "id_materia", "id_espacio", "id_tiempo", "id_hecho", "duracion_min"}
COLS_HORA == {"h_inicio", "h_fin"}
Ausente(col) ==
    IF col \in COLS_NUM THEN NaN ELSE IF col \in COLS_HORA THEN NaT ELSE NaNTxt

\* left.merge(right, on=on, how="inner"): the left rows without a match are dropped
RECURSIVE InnerMerge(_, _, _, _)
InnerMerge(left, right, on, cols) ==
    IF left = <<>> THEN <<>>
    ELSE LET l == Head(left)
             Igual(d) == \A c \in on : d[c] = l[c]
             m == SelectSeq(right, Igual)
             filas == IF m = <<>> THEN <<>>
                      ELSE LET Une(d) == l @@ d IN MapFrame(m, Une)
         IN filas \o InnerMerge(Tail(left), right, on, cols)

\* a left merge in which an absent key matches nothing, as a SQL join does
RECURSIVE LeftMerge_nulos_sin_pareja(_, _, _, _)
LeftMerge_nulos_sin_pareja(left, right, on, cols) ==
    IF left = <<>> THEN <<>>
    ELSE LET l == Head(left)
             Igual(d) == \A c \in on : d[c] = l[c] /\ l[c] # Ausente(c)
             m == SelectSeq(right, Igual)
             filas == IF m = <<>> THEN <<l @@ [c \in cols \ on |-> Ausente(c)]>>
                      ELSE LET Une(d) == l @@ d IN MapFrame(m, Une)
         IN filas \o LeftMerge_nulos_sin_pareja(Tail(left), right, on, cols)

\* left.merge(right, on=on, how="left"): for each left row, in order, one row
\* per right row equal on the columns on (absent values match each other), or
\* one row with the right columns absent.  cols is the right frame's columns.
RECURSIVE LeftMerge(_, _, _, _)
LeftMerge(left, right, on, cols) ==
    IF left = <<>> THEN <<>>
    ELSE LET l == Head(left)
             Igual(d) == \A c \in on : d[c] = l[c]
             m == SelectSeq(right, Igual)
             filas == IF m = <<>> THEN <<l @@ [c \in cols \ on |-> Ausente(c)]>>
                      ELSE LET Une(d) == l @@ d IN MapFrame(m, Une)
         IN filas \o LeftMerge(Tail(left), right, on, cols)

---------------------------------------------------------------------------
(* build_dim and map_id *)

\* build_dim numbering the rows from 0 (range(len(d)) for range(1, 1 + len(d)))
build_dim_desde_cero(df, cols_keep, name_id) ==
    LET Cols(r) == Proj(r, cols_keep)
        d == DropDuplicates(MapFrame(df, Cols))
        Fila(i) == (name_id :> (i - 1)) @@ d[i]
    IN IF d = <<>> THEN <<>> ELSE [i \in 1..Len(d) |-> Fila(i)]

\* build_dim(df, col_key, cols_keep, start_id=1, name_id)
build_dim(df, cols_keep, name_id) ==
    LET Cols(r) == Proj(r, cols_keep)
        d == DropDuplicates(MapFrame(df, Cols))
        Fila(i) == (name_id :> i) @@ d[i]
    IN IF d = <<>> THEN <<>> ELSE [i \in 1..Len(d) |-> Fila(i)]

\* "|".join of the texts of a list
RECURSIVE JoinBarra(_)
JoinBarra(ts) ==
    IF Len(ts) = 1 THEN ts[1] ELSE ts[1] \o <<"|">> \o JoinBarra(Tail(ts))

\* df[key_cols].astype(str).agg("|".join, axis=1) of one row
Key(r, key_cols) == JoinBarra([i \in DOMAIN key_cols |-> str(r[key_cols[i]])])

\* validate="m:1": the merge keys of the right frame are unique
KeysUnique(dim, key_cols) ==
    \A i, j \in DOMAIN dim : i # j => Key(dim[i], key_cols) # Key(dim[j], key_cols)

\* map_id(df, dim, key_cols_df, key_cols_dim, id_col): the ids, row by row.
\* It raises MergeError when KeysUnique fails; the caller tests that first.
map_id(df, dim, key_cols, id_col) ==
    LET Id(r) ==
            LET hit == {j \in DOMAIN dim : Key(dim[j], key_cols) = Key(r, key_cols)}
            IN IF hit = {} THEN NaN ELSE dim[CHOOSE j \in hit : TRUE][id_col]
    IN MapFrame(df, Id)

---------------------------------------------------------------------------
(* transform_all *)

\* lines 237 and 248: the professor normalized, the time range parsed
Normalizada(r) ==
    CHOOSE n \in {[h_inicio |-> h[1], h_fin |-> h[2], duracion_min |-> h[3]]
                  @@ [r EXCEPT !.profesor = normalizar_profesor(r.profesor)]
                  : h \in {parse_hora(r.hora)}} : TRUE

\* line 251: the room code split
ConSalon(r) ==
    CHOOSE n \in {[edificio |-> e[1], aula |-> e[2], codigo_salon |-> e[3]] @@ r
                  : e \in {split_salon(r.salon)}} : TRUE

COLS_DOCENTE == {"profesor"}
COLS_MATERIA == {"clave", "materia"}
COLS_ESPACIO == {"edificio", "aula", "codigo_salon"}
COLS_TIEMPO == {"dia_codigo", "dia_semana", "h_inicio", "h_fin"}

\* lines 265-268: the columns of hechos_horarios, "dias" renamed to "seccion"
FilaHecho(r) ==
    [id_docente |-> r.id_docente, id_materia |-> r.id_materia,
     id_espacio |-> r.id_espacio, id_tiempo |-> r.id_tiempo,
     nrc |-> r.nrc, clave |-> r.clave, seccion |-> r.dias,
     duracion_min |-> r.duracion_min]

\* lines 237-251: the curated rows
Curar(frame) == MapFrame(explotar_por_dia(MapFrame(frame, Normalizada)), ConSalon)

\* lines 259-268: the facts of the curated rows cur over the four dimensions,
\* or the exception map_id ends with
Ensamblar(cur, ddoc, dmat, desp, dtie) ==
    LET idd == map_id(cur, ddoc, <<"profesor">>, "id_docente")
        idm == map_id(cur, dmat, <<"clave", "materia">>, "id_materia")
        ide == map_id(cur, desp, <<"codigo_salon">>, "id_espacio")
        ConIds(i) == [id_docente |-> idd[i], id_materia |-> idm[i],
                      id_espacio |-> ide[i]] @@ cur[i]
        h3 == [i \in 1..Len(cur) |-> ConIds(i)]
        h4 == LeftMerge(h3, dtie, COLS_TIEMPO, COLS_TIEMPO \cup {"id_tiempo"})
        dims == [curated |-> cur, dim_docente |-> ddoc, dim_materia |-> dmat,
                 dim_espacio |-> desp, dim_tiempo |-> dtie]
    IN IF \/ ~KeysUnique(ddoc, <<"profesor">>)
          \/ ~KeysUnique(dmat, <<"clave", "materia">>)
          \/ ~KeysUnique(desp, <<"codigo_salon">>)
       THEN [err |-> "MergeError", hechos |-> <<>>] @@ dims
       ELSE [err |-> "ok", hechos |-> MapFrame(h4, FilaHecho)] @@ dims

\* lines 254-257: the four dimensions of the curated rows cur, then the facts
ConDimensiones(cur) ==
    CHOOSE t \in {Ensamblar(cur, ddoc, dmat, desp, dtie) :
                     ddoc \in {build_dim(cur, COLS_DOCENTE, "id_docente")},
                     dmat \in {build_dim(cur, COLS_MATERIA, "id_materia")},
                     desp \in {build_dim(cur, COLS_ESPACIO, "id_espacio")},
                     dtie \in {build_dim(cur, COLS_TIEMPO, "id_tiempo")}} : TRUE

\* transform_all(raw): what it returns, or the exception it ends with (then
\* with the frames it had built when the exception was raised).
\*   KeyError: no row is left after explotar_por_dia, so the frame built from
\*     the empty list has no column to read at line 251;
\*   MergeError: map_id's merge finds two dimension rows with one text key.
transform_all(frame) ==
    CHOOSE t \in {IF cur = <<>>
                  THEN [err |-> "KeyError", curated |-> <<>>, dim_docente |-> <<>>,
                        dim_materia |-> <<>>, dim_espacio |-> <<>>,
                        dim_tiempo |-> <<>>, hechos |-> <<>>]
                  ELSE ConDimensiones(cur) : cur \in {Curar(frame)}} : TRUE

---------------------------------------------------------------------------
(* Horario_cubo.__init__ *)

Sabado == <<"S", "a", "b", "a", "d", "o">>
ORDEN_DIAS == <<Lunes, Martes, Miercoles, Jueves, Viernes, Sabado>>

\* _to_time_safe(x) of a stored time cell.  datetime.time(h, m, s) raises
\* ValueError for an hour outside 0..23; that result has tipo "ValueError".
to_time_safe(x) ==
    IF x.tipo = "NaT" THEN NaT
    ELSE IF x.tipo = "time" THEN x
    ELSE LET total == x.seg
             h == total \div 3600
             m == (total % 3600) \div 60
             sec == (total % 3600) % 60
         IN IF h >= 0 /\ h <= 23 THEN Time(h * 3600 + m * 60 + sec)
            ELSE [tipo |-> "ValueError", seg |-> 0]

\* DataFrame.rename(columns={old: new}) of one row
Rename(r, old, new) ==
    [c \in (DOMAIN r \ {old}) \cup {new} |-> IF c = new THEN r[old] ELSE r[c]]

\* lines 100-103: "clave" of the facts (clave_x) and of dim_materia (clave_y)
\* become one column, the dimension's value first
ReconciliarClave(r) ==
    [c \in (DOMAIN r \ {"clave_x", "clave_y"}) \cup {"clave"} |->
        IF c = "clave" THEN (IF ~IsNull(r.clave_y) THEN r.clave_y ELSE r.clave_x)
        ELSE r[c]]

\* lines 110-112: both time columns through _to_time_safe
HorasSeguras(r) ==
    [r EXCEPT !.h_inicio = to_time_safe(r.h_inicio), !.h_fin = to_time_safe(r.h_fin)]

\* lines 119-120: pd.Categorical(..., categories=ORDEN_DIAS): a value that is
\* no category becomes NaN
Categorical(v) == IF \E i \in DOMAIN ORDEN_DIAS : ORDEN_DIAS[i] = v THEN v ELSE NaNTxt

DiaCategorico(r) == [r EXCEPT !.dia_semana = Categorical(r.dia_semana)]

\* The frame of the cube, or the exception the constructor ends with.  cols
\* gives the columns of the four dimension frames.  Every frame this program
\* builds or loads has the column duracion_min, so lines 115-116 never run.
Horario_cubo(h, ddoc, dmat, desp, dtie, cols) ==
    LET ClaveX(r) == Rename(r, "clave", "clave_x")
        ClaveY(r) == Rename(r, "clave", "clave_y")
        m1 == LeftMerge(h, ddoc, {"id_docente"}, cols.docente)
        m2 == LeftMerge(MapFrame(m1, ClaveX), MapFrame(dmat, ClaveY), {"id_materia"},
                        (cols.materia \ {"clave"}) \cup {"clave_y"})
        m3 == LeftMerge(MapFrame(m2, ReconciliarClave), desp, {"id_espacio"}, cols.espacio)
        m4 == LeftMerge(m3, dtie, {"id_tiempo"}, cols.tiempo)
        c5 == MapFrame(m4, HorasSeguras)
    IN IF \E i \in DOMAIN c5 : "ValueError" \in {c5[i].h_inicio.tipo, c5[i].h_fin.tipo}
       THEN [err |-> "ValueError", cubo |-> <<>>]
       ELSE [err |-> "ok", cubo |-> MapFrame(c5, DiaCategorico)]

\* the columns of the frames transform_all returns
COLS_ETL ==
    [docente |-> COLS_DOCENTE \cup {"id_docente"},
     materia |-> COLS_MATERIA \cup {"id_materia"},
     espacio |-> COLS_ESPACIO \cup {"id_espacio"},
     tiempo |-> COLS_TIEMPO \cup {"id_tiempo"}]

\* the columns of the tables crear_tablas declares and cargar_tablas reads
COLS_DB ==
    [docente |-> {"id_docente", "nombreCompleto"},
     materia |-> {"id_materia", "clave", "nombreMateria"},
     espacio |-> {"id_espacio", "edificio", "aula", "codigo_salon"},
     tiempo |-> {"id_tiempo", "dia_codigo", "dia_semana", "h_inicio", "h_fin"}]

\* _to_time_safe(x) of a text: "", "NaT" and "None" are None; any other text
\* goes through pd.to_datetime(str(x), errors="coerce"), which reads HH:MM with
\* the hour in 0..23 and the minute in 0..59 and gives NaT for the other texts
\* the queries are called with here
to_time_safe_str(x) ==
    IF x \in {<<>>, <<"N", "a", "T">>, <<"N", "o", "n", "e">>} THEN NaT
    ELSE IF /\ Len(x) = 5
            /\ x[3] = ":"
            /\ \A i \in {1, 2, 4, 5} : IsDigit(x[i])
            /\ 10 * DigitVal(x[1]) + DigitVal(x[2]) <= 23
            /\ 10 * DigitVal(x[4]) + DigitVal(x[5]) <= 59
         THEN Time((10 * DigitVal(x[1]) + DigitVal(x[2])) * 3600
                   + (10 * DigitVal(x[4]) + DigitVal(x[5])) * 60)
         ELSE NaT

---------------------------------------------------------------------------
(* Series.str.contains(pat, case=False, na=False): the default regex=True *)
(* makes it re.search(pat, cell, re.IGNORECASE)                            *)

\* re.compile(pat) raises re.error.  Of the characters the patterns here are
\* written with, "(" opens a group that nothing closes.
PatronInvalido(pat) == \E i \in DOMAIN pat : pat[i] = "("

\* one pattern character against one character of the text: "." is any one
CharCoincide(p, c) == p = "." \/ Lower(p) = Lower(c)

\* re.search(pat, texto, re.IGNORECASE) finds a match
ReSearch(pat, texto) ==
    \E k \in 0..(Len(texto) - Len(pat)) :
        \A i \in DOMAIN pat : CharCoincide(pat[i], texto[k + i])

\* the mask of one cell; na=False gives False for an absent cell
StrContains(celda, pat) == ~IsNull(celda) /\ ReSearch(pat, celda)

---------------------------------------------------------------------------
(* sort_values, drop_duplicates and the orders of the cells *)

\* the characters in code point order
CODEPOINTS == <<" ", ".", "/">> \o DIGITS \o UPPERS \o LOWERS \o <<"|">>
Ord(ch) == CHOOSE i \in DOMAIN CODEPOINTS : CODEPOINTS[i] = ch

\* a < b for two texts (str.__lt__)
LexMenor(a, b) ==
    \E k \in 1..(Len(b)) :
        /\ \A i \in 1..(k - 1) : i <= Len(a) /\ a[i] = b[i]
        /\ k > Len(a) \/ Ord(a[k]) < Ord(b[k])

\* the position of a cell in a column's order, absent cells last
DiaOrden(v) ==
    IF IsNull(v) THEN Len(ORDEN_DIAS) + 1
    ELSE CHOOSE i \in DOMAIN ORDEN_DIAS : ORDEN_DIAS[i] = v
HoraOrden(t) == IF t.tipo = "time" THEN t.seg ELSE 86400
TextoMenor(a, b) == ~IsNull(a) /\ (IsNull(b) \/ LexMenor(a, b))

\* sort_values over several columns: a stable sort by the order Menor
SortValues(df, Menor(_, _)) ==
    LET Pos(i) == 1 + Cardinality({j \in DOMAIN df :
                        Menor(df[j], df[i]) \/ (~Menor(df[i], df[j]) /\ j < i)})
    IN IF df = <<>> THEN <<>>
       ELSE [k \in 1..Len(df) |-> df[CHOOSE i \in DOMAIN df : Pos(i) = k]]

\* drop_duplicates() where cells can be NaN: absent cells are equal
NormNulos(r) ==
    [c \in DOMAIN r |->
        IF c \notin (COLS_NUM \cup COLS_HORA) /\ IsNull(r[c]) THEN None ELSE r[c]]

RECURSIVE DropDuplicatesNulos(_)
DropDuplicatesNulos(df) ==
    IF df = <<>> THEN <<>>
    ELSE LET antes == DropDuplicatesNulos(SubSeq(df, 1, Len(df) - 1))
             r == df[Len(df)]
         IN IF \E i \in DOMAIN antes : NormNulos(antes[i]) = NormNulos(r)
            THEN antes ELSE Append(antes, r)

\* what a query gives: the rows it returns, or the exception it ends with
Filas(df) == [err |-> "ok", filas |-> df]
Lanza(e) == [err |-> e, filas |-> <<>>]

---------------------------------------------------------------------------
(* drilldown_docente_dia_hora(df_in) *)

\* the order of drilldown with the absent days first (na_position="first")
MenorDiaHora_ausentes_primero(a, b) ==
    LET Dia(v) == IF IsNull(v) THEN 0 ELSE DiaOrden(v)
        ka == <<Dia(a.dia_semana), HoraOrden(a.h_inicio), HoraOrden(a.h_fin)>>
        kb == <<Dia(b.dia_semana), HoraOrden(b.h_inicio), HoraOrden(b.h_fin)>>
    IN \/ ka[1] < kb[1]
       \/ ka[1] = kb[1] /\ ka[2] < kb[2]
       \/ ka[1] = kb[1] /\ ka[2] = kb[2] /\ ka[3] < kb[3]

MenorDiaHora(a, b) ==
    LET ka == <<DiaOrden(a.dia_semana), HoraOrden(a.h_inicio), HoraOrden(a.h_fin)>>
        kb == <<DiaOrden(b.dia_semana), HoraOrden(b.h_inicio), HoraOrden(b.h_fin)>>
    IN \/ ka[1] < kb[1]
       \/ ka[1] = kb[1] /\ ka[2] < kb[2]
       \/ ka[1] = kb[1] /\ ka[2] = kb[2] /\ ka[3] < kb[3]

drilldown_docente_dia_hora(df) == SortValues(MapFrame(df, DiaCategorico), MenorDiaHora)

\* the cube left sorted by the call without df_in (sort_values(inplace=True))
CuboTrasDrilldown_ordenado(c) == drilldown_docente_dia_hora(c)

\* lines 218-220 without df_in: df is self.cubo itself, so the assignment of
\* the categorical column is made on the cube
CuboTrasDrilldown(c) == MapFrame(c, DiaCategorico)

---------------------------------------------------------------------------
(* slice_por_docente(texto_nombre) *)

COLS_SLICE == {"nombreCompleto", "dia_semana", "h_inicio", "h_fin", "nombreMateria",
               "clave", "codigo_salon", "edificio", "aula"}

slice_por_docente(c, texto_nombre) ==
    LET Sel(r) == StrContains(r.nombreCompleto, texto_nombre)
        df == SelectSeq(c, Sel)
        Cols(r) == Proj(r, COLS_SLICE)
    IN IF PatronInvalido(texto_nombre) THEN Lanza("re.error")
       ELSE IF df = <<>> THEN Filas(<<>>)
       ELSE Filas(MapFrame(drilldown_docente_dia_hora(df), Cols))

---------------------------------------------------------------------------
(* dice_por_materia(clave_o_nombre) *)

COLS_MATERIA_DOCENTE == {"clave", "nombreMateria", "nombreCompleto"}

MenorClaveDocente(a, b) ==
    \/ TextoMenor(a.clave, b.clave)
    \/ /\ ~TextoMenor(b.clave, a.clave)
       /\ TextoMenor(a.nombreCompleto, b.nombreCompleto)

dice_por_materia(c, clave_o_nombre) ==
    LET Sel(r) == \/ StrContains(r.nombreMateria, clave_o_nombre)
                  \/ StrContains(r.clave, clave_o_nombre)
        df == SelectSeq(c, Sel)
        Cols(r) == Proj(r, COLS_MATERIA_DOCENTE)
    IN IF PatronInvalido(clave_o_nombre) THEN Lanza("re.error")
       ELSE IF df = <<>> THEN Filas(<<>>)
       ELSE Filas(SortValues(DropDuplicatesNulos(MapFrame(df, Cols)), MenorClaveDocente))

---------------------------------------------------------------------------
(* dice_en_edificio_hora(edificio, hora_str) *)

COLS_DICE == {"nombreCompleto", "nombreMateria", "clave", "codigo_salon",
              "dia_semana", "h_inicio", "h_fin"}

MenorDiaHoraDocente(a, b) ==
    LET ka == <<DiaOrden(a.dia_semana), HoraOrden(a.h_inicio)>>
        kb == <<DiaOrden(b.dia_semana), HoraOrden(b.h_inicio)>>
    IN \/ ka[1] < kb[1]
       \/ ka[1] = kb[1] /\ ka[2] < kb[2]
       \/ ka[1] = kb[1] /\ ka[2] = kb[2] /\ TextoMenor(a.nombreCompleto, b.nombreCompleto)

dice_en_edificio_hora(c, edificio, hora_str) ==
    LET hora_ref == to_time_safe_str(hora_str)
        ConHoras(r) == r.h_inicio # NaT /\ r.h_fin # NaT
        df == SelectSeq(c, ConHoras)
        Sel(r) == /\ StrContains(str(r.edificio), edificio)
                  /\ r.h_inicio.seg <= hora_ref.seg
                  /\ r.h_fin.seg >= hora_ref.seg
        Cols(r) == Proj(r, COLS_DICE)
    IN IF hora_ref = NaT THEN Filas(<<>>)
       ELSE IF PatronInvalido(edificio) THEN Lanza("re.error")
       ELSE Filas(SortValues(DropDuplicatesNulos(MapFrame(SelectSeq(df, Sel), Cols)),
                             MenorDiaHoraDocente))

---------------------------------------------------------------------------
(* rollup_horas_por_docente() *)

\* the keys of groupby("nombreCompleto", dropna=False), sorted: the names in
\* ascending order, then the absent name (None) if a row has none
Nombres(c) == {c[i].nombreCompleto : i \in {j \in DOMAIN c : ~IsNull(c[j].nombreCompleto)}}
NombresOrdenados(c) ==
    LET S == Nombres(c)
    IN [k \in 1..Cardinality(S) |->
           CHOOSE n \in S : Cardinality({m \in S : LexMenor(m, n)}) = k - 1]
Grupos(c) ==
    NombresOrdenados(c)
    \o (IF \E i \in DOMAIN c : IsNull(c[i].nombreCompleto) THEN <<None>> ELSE <<>>)

\* the rows of one group
DelGrupo(c, n) ==
    {i \in DOMAIN c : IF n = None THEN IsNull(c[i].nombreCompleto)
                      ELSE c[i].nombreCompleto = n}

\* sum() of duracion_min over rows: NaN is skipped
RECURSIVE SumaDuracion(_, _)
SumaDuracion(c, filas) ==
    IF filas = {} THEN 0
    ELSE LET i == CHOOSE j \in filas : TRUE
             d == c[i].duracion_min
         IN (IF d = NaN THEN 0 ELSE d) + SumaDuracion(c, filas \ {i})

\* (minutos / 60).round(2), in hundredths of an hour, cutting the digits
\* after the second decimal instead of rounding
Redondear2_truncando(minutos) == (10 * minutos) \div 6

\* (minutos / 60).round(2), in hundredths of an hour
Redondear2(minutos) == (10 * minutos + 3) \div 6

\* the frame before the last sort
Resumen(c) ==
    LET g == Grupos(c)
        Fila(k) == LET m == SumaDuracion(c, DelGrupo(c, g[k]))
                   IN [Nombre |-> g[k], Minutos_totales |-> m,
                       Horas_totales |-> Redondear2(m)]
    IN IF g = <<>> THEN <<>> ELSE [k \in 1..Len(g) |-> Fila(k)]

\* The frames rollup_horas_por_docente can return.  The last sort is
\* sort_values("Horas_totales", ascending=False) with the default quicksort,
\* which fixes no order among rows of equal hours.
rollup_horas_por_docente(c) ==
    LET r == Resumen(c)
        n == Len(r)
        Perms == {p \in [1..n -> 1..n] : \A i, j \in 1..n : i # j => p[i] # p[j]}
        Desc(p) == \A k \in 1..(n - 1) :
                       r[p[k]].Horas_totales >= r[p[k + 1]].Horas_totales
    IN {Filas([k \in 1..n |-> r[p[k]]]) : p \in {q \in Perms : Desc(q)}}

---------------------------------------------------------------------------
(* pivot_docente_por_dia() *)

\* aggfunc=nunique in place of "count"
ConteoDistintos(c, n, d) ==
    Cardinality({c[i].nrc : i \in {j \in DOMAIN c : /\ c[j].nombreCompleto = n
                                                     /\ c[j].dia_semana = d
                                                     /\ ~IsNull(c[j].nrc)}})

\* aggfunc="count" of nrc for one (name, day): the rows of the name, on that
\* day, whose nrc is present
Conteo(c, n, d) ==
    Cardinality({i \in DOMAIN c : /\ c[i].nombreCompleto = n
                                  /\ c[i].dia_semana = d
                                  /\ ~IsNull(c[i].nrc)})

RECURSIVE SumaSeq(_)
SumaSeq(q) == IF q = <<>> THEN 0 ELSE Head(q) + SumaSeq(Tail(q))

\* one row per name that is present (dia_semana is categorical, so each name
\* gets every day, zero-filled), the days in the order of ORDEN_DIAS, then Total
pivot_docente_por_dia(c) ==
    LET g == NombresOrdenados(c)
        Fila(k) == LET dias == [i \in DOMAIN ORDEN_DIAS |-> Conteo(c, g[k], ORDEN_DIAS[i])]
                   IN [Nombre |-> g[k], dias |-> dias, Total |-> SumaSeq(dias)]
    IN IF g = <<>> THEN Filas(<<>>) ELSE Filas([k \in 1..Len(g) |-> Fila(k)])

---------------------------------------------------------------------------
(* The state before anything ran *)

NoCall == [fn |-> "none", arg |-> <<>>, ret |-> <<>>]

\* the store before the first run: no table exists, no connection was opened
DB_VACIA ==
    [conexiones |-> 0, tablas |-> FALSE, corridas |-> 0,
     dim_docente |-> <<>>, dim_materia |-> <<>>, dim_espacio |-> <<>>,
     dim_tiempo |-> <<>>, hechos_horarios |-> <<>>]

Idle ==
    /\ pc = "idle"
    /\ call = NoCall
    /\ raw = <<>>
    /\ curated = <<>>
    /\ dim_docente = <<>>
    /\ dim_materia = <<>>
    /\ dim_espacio = <<>>
    /\ dim_tiempo = <<>>
    /\ hechos = <<>>
    /\ err = "ok"
    /\ cubo = <<>>
    /\ result = <<>>
    /\ db = DB_VACIA

tables == <<raw, curated, dim_docente, dim_materia, dim_espacio, dim_tiempo,
            hechos, cubo, result, db>>

---------------------------------------------------------------------------
(* parse_hora on the texts of a schedule's "hora" cell *)

HORA_TXT == {<<"7">>, <<"0", "7">>, <<"0", "8">>, <<"2", "3">>, <<"2", "5">>}
MINUTO_TXT == {<<"0", "0">>, <<"3", "0">>, <<"5", "9">>, <<"6", "0">>}
DOSPUNTOS_TXT == {<<":">>, <<>>}
SEPARADOR_TXT == {<<"-">>, <<ENDASH>>, <<" ", "-", " ">>, <<"a">>}
RESTO_TXT == {<<>>, <<"h">>, <<"5">>}

HoraInputs ==
    {h1 \o c1 \o m1 \o sp \o h2 \o c2 \o m2 \o rs :
        h1 \in HORA_TXT, c1 \in DOSPUNTOS_TXT, m1 \in MINUTO_TXT,
        sp \in SEPARADOR_TXT,
        h2 \in HORA_TXT, c2 \in DOSPUNTOS_TXT, m2 \in MINUTO_TXT,
        rs \in RESTO_TXT}
    \cup {None, <<>>, <<"0", "7", ":", "0", "0">>}

CallParseHora ==
    /\ pc = "idle"
    /\ \E rango \in HoraInputs :
          call' = [fn |-> "parse_hora", arg |-> rango, ret |-> parse_hora(rango)]
    /\ pc' = "returned"
    /\ UNCHANGED <<tables, err>>

NextHora == CallParseHora

SpecHora == Idle /\ [][NextHora]_vars

\* The text is DD:DD-DD:DD, two digits in each place
EsRangoHHMM(s) ==
    /\ Len(s) = 11
    /\ s[3] = ":" /\ s[6] = "-" /\ s[9] = ":"
    /\ \A i \in {1, 2, 4, 5, 7, 8, 10, 11} : IsDigit(s[i])

Dos(s, i) == 10 * DigitVal(s[i]) + DigitVal(s[i + 1])

\* ... its clock times are valid and the end is strictly after the start
EsRangoValido(s) ==
    /\ EsRangoHHMM(s)
    /\ Dos(s, 1) <= 23 /\ Dos(s, 4) <= 59
    /\ Dos(s, 7) <= 23 /\ Dos(s, 10) <= 59
    /\ Dos(s, 7) * 60 + Dos(s, 10) > Dos(s, 1) * 60 + Dos(s, 4)

\* C1: parse_hora returns its three values all present or all absent; when
\* present the end is strictly after the start and the duration is positive;
\* and for HH:MM-HH:MM with valid clock times and end after start the three
\* are present, the times are those written, and the duration is end minus
\* start in whole minutes.
C1_ParseHoraTodoONada ==
    call.fn = "parse_hora" =>
        LET r == call.ret
            s == call.arg
        IN /\ \/ r[1] = NaT /\ r[2] = NaT /\ r[3] = NaN
              \/ /\ r[1].tipo = "time" /\ r[2].tipo = "time" /\ r[3] # NaN
                 /\ r[3] > 0 /\ r[2].seg > r[1].seg
           /\ (s # None /\ EsRangoValido(s)) =>
                 /\ r[1] = Time(Dos(s, 1) * 3600 + Dos(s, 4) * 60)
                 /\ r[2] = Time(Dos(s, 7) * 3600 + Dos(s, 10) * 60)
                 /\ r[3] = (Dos(s, 7) * 60 + Dos(s, 10)) - (Dos(s, 1) * 60 + Dos(s, 4))

\* a valid range was parsed: 07:00-08:30 gave 90 minutes
C1_Witness ==
    /\ call.fn = "parse_hora"
    /\ call.arg = <<"0", "7", ":", "0", "0", "-", "0", "8", ":", "3", "0">>
    /\ call.ret = <<Time(7 * 3600), Time(8 * 3600 + 30 * 60), 90>>

---------------------------------------------------------------------------
(* explotar_por_dia on frames of one or two rows *)

MaxDiaLen == 3

DIA_ALFABETO == {"L", "M", "S", "X", ",", " "}

RECURSIVE TextosHasta(_, _)
TextosHasta(alfabeto, n) ==
    IF n = 0 THEN {<<>>}
    ELSE LET menores == TextosHasta(alfabeto, n - 1)
         IN menores \cup {Append(t, c) : t \in menores, c \in alfabeto}

DiaCodes == TextosHasta(DIA_ALFABETO, MaxDiaLen) \cup {None}

FilaCruda(nrc, dias) ==
    [nrc |-> nrc, clave |-> <<"I", "C", "C">>, materia |-> <<"A", "l", "g">>,
     dias |-> dias, hora |-> <<"0", "7", ":", "0", "0", "-", "0", "8", ":", "3", "0">>,
     profesor |-> <<"A", "n", "a">>, salon |-> <<"1", "/", "2">>]

DiaFrames ==
    LET primeras == {FilaCruda(n, d) : n \in {<<"1">>, <<"2">>}, d \in DiaCodes}
        segundas == {FilaCruda(<<"3">>, d) : d \in {<<>>, <<"L", "M">>}}
    IN {<<r>> : r \in primeras} \cup {<<r, q>> : r \in primeras, q \in segundas}

CallExplotar ==
    /\ pc = "idle"
    /\ \E df \in DiaFrames :
          call' = [fn |-> "explotar_por_dia", arg |-> df, ret |-> explotar_por_dia(df)]
    /\ pc' = "returned"
    /\ UNCHANGED <<tables, err>>

NextDia == CallExplotar

SpecDia == Idle /\ [][NextDia]_vars

\* The tokenization rule as the specification words it: with a comma in the
\* code, the texts between the commas; without one, each character.
Comas(c) == {i \in DOMAIN c : c[i] = ","}
NumTokens(c) == IF Comas(c) # {} THEN Cardinality(Comas(c)) + 1 ELSE Len(c)
ComaNum(c, k) == CHOOSE i \in Comas(c) : Cardinality({j \in Comas(c) : j <= i}) = k
TokenNum(c, k) ==
    IF Comas(c) = {} THEN <<c[k]>>
    ELSE LET desde == IF k = 1 THEN 0 ELSE ComaNum(c, k - 1)
             hasta == IF k = NumTokens(c) THEN Len(c) + 1 ELSE ComaNum(c, k)
         IN SubSeq(c, desde + 1, hasta - 1)

RECURSIVE SumaTokens(_, _, _)
SumaTokens(Codigo(_), df, n) ==
    IF n = 0 THEN 0 ELSE SumaTokens(Codigo, df, n - 1) + NumTokens(Codigo(df[n].dias))

\* out holds, for each row of df in order, one row per token of Codigo(day cell)
\* in token order, every other field being the source row's
UnaFilaPorToken(Codigo(_), df, out) ==
    /\ Len(out) = SumaTokens(Codigo, df, Len(df))
    /\ \A i \in DOMAIN df : \A k \in 1..NumTokens(Codigo(df[i].dias)) :
          LET o == out[SumaTokens(Codigo, df, i - 1) + k]
          IN /\ o.dia_codigo = TokenNum(Codigo(df[i].dias), k)
             /\ \A f \in DOMAIN df[i] : o[f] = df[i][f]
             /\ DOMAIN o = DOMAIN df[i] \cup {"dia_codigo", "dia_semana"}

TalCual(c) == c
SinBlancos(c) == Without(c, {" "})
SoloTextos(df) == \A i \in DOMAIN df : df[i].dias # None

\* C2 as claimed: for every day-code text the rows emitted are the tokens of
\* the code itself (commas split, else one per character), in token order, the
\* other fields copied.
C2_Original ==
    (call.fn = "explotar_por_dia" /\ SoloTextos(call.arg)) =>
        UnaFilaPorToken(TalCual, call.arg, call.ret)

\* C2 amended: for every day-code text explotar_por_dia emits one row per token
\* of the code with its space characters removed (commas split if that text
\* has a comma, else one token per character), in token order, and every field
\* of an emitted row other than dia_codigo and dia_semana is the source row's.
C2_UnaFilaPorTokenSinBlancos ==
    (call.fn = "explotar_por_dia" /\ SoloTextos(call.arg)) =>
        UnaFilaPorToken(SinBlancos, call.arg, call.ret)

\* a code with a blank and a comma was expanded: "L ,M" gave the rows L and M
C2_Witness ==
    /\ call.fn = "explotar_por_dia"
    /\ Len(call.arg) = 1
    /\ call.arg[1].dias = <<"L", " ", ",">>
    /\ Len(call.ret) = 2
    /\ call.ret[1].dia_codigo = <<"L">>
    /\ call.ret[2].dia_codigo = <<>>

---------------------------------------------------------------------------
(* The ETL: extract_all, then transform_all, then the cube over its frames *)

MaxRows == 2

PROFESOR_TXT == {None, <<"n", "o", "n", "e">>, <<"A", "N", "A", " ", " ", "b">>}
MATERIA_TXT == {<<(<<"A", "|", "B">>), (<<"C">>)>>, <<(<<"A">>), (<<"B", "|", "C">>)>>,
                <<(<<"A">>), (<<"C">>)>>}
DIAS_TXT == {<<"L">>, <<"S">>, <<"L", "M">>, <<>>}
RANGO_TXT == {<<"0", "7", ":", "0", "0", "-", "0", "8", ":", "3", "0">>,
              <<"2", "5", ":", "0", "0", "-", "2", "6", ":", "0", "0">>}
SALON_TXT == {<<"1", "C", "/", "2">>, <<"1", "C">>, <<"/", "2">>, None}

Fila(prof, mat, dias, hora, salon) ==
    [nrc |-> <<"1">>, clave |-> mat[1], materia |-> mat[2], dias |-> dias,
     hora |-> hora, profesor |-> prof, salon |-> salon]

\* the rows a table can hold: every combination for a frame's first row, and
\* for the rows after it a base row changed in one cell
FILAS_PRIMERA ==
    {Fila(p, m, d, h, a) : p \in PROFESOR_TXT, m \in MATERIA_TXT, d \in DIAS_TXT,
                           h \in RANGO_TXT, a \in SALON_TXT}

FILA_BASE == <<(<<"A", "N", "A", " ", " ", "b">>), (<<(<<"A">>), (<<"C">>)>>), (<<"L">>),
               (<<"0", "7", ":", "0", "0", "-", "0", "8", ":", "3", "0">>),
               (<<"1", "C", "/", "2">>)>>

FILAS_OTRAS ==
    {Fila(c[1], c[2], c[3], c[4], c[5]) :
        c \in {[FILA_BASE EXCEPT ![1] = p] : p \in PROFESOR_TXT}
              \cup {[FILA_BASE EXCEPT ![2] = m] : m \in MATERIA_TXT}
              \cup {[FILA_BASE EXCEPT ![3] = d] : d \in DIAS_TXT}
              \cup {[FILA_BASE EXCEPT ![4] = h] : h \in RANGO_TXT}
              \cup {[FILA_BASE EXCEPT ![5] = a] : a \in SALON_TXT}}

RECURSIVE FramesHasta(_)
FramesHasta(n) ==
    IF n <= 1 THEN {<<r>> : r \in FILAS_PRIMERA}
    ELSE LET m == FramesHasta(n - 1)
         IN m \cup {Append(f, q) : f \in m, q \in FILAS_OTRAS}

\* extract_all returned a frame with rows (main stops on an empty one)
ExtractAll ==
    /\ pc = "idle"
    /\ \E f \in FramesHasta(MaxRows) : raw' = f
    /\ pc' = "extracted"
    /\ UNCHANGED <<db, call, curated, dim_docente, dim_materia, dim_espacio, dim_tiempo,
                   hechos, err, cubo, result>>

TransformAll ==
    /\ pc = "extracted"
    /\ \E t \in {transform_all(raw)} :
          /\ err' = t.err
          /\ curated' = t.curated
          /\ dim_docente' = t.dim_docente
          /\ dim_materia' = t.dim_materia
          /\ dim_espacio' = t.dim_espacio
          /\ dim_tiempo' = t.dim_tiempo
          /\ hechos' = t.hechos
          /\ pc' = IF t.err = "ok" THEN "transformed" ELSE "failed"
    /\ UNCHANGED <<db, call, raw, cubo, result>>

\* Horario_cubo(hechos_horarios, dim_docente, dim_materia, dim_espacio, dim_tiempo)
\* over the frames transform_all returned
CuboDeETL ==
    /\ pc = "transformed"
    /\ \E c \in {Horario_cubo(hechos, dim_docente, dim_materia, dim_espacio,
                                dim_tiempo, COLS_ETL)} :
          /\ cubo' = c.cubo
          /\ err' = c.err
          /\ pc' = IF c.err = "ok" THEN "cubo" ELSE "failed"
    /\ UNCHANGED <<db, call, raw, curated, dim_docente, dim_materia, dim_espacio,
                   dim_tiempo, hechos, result>>

NextETL == ExtractAll \/ TransformAll \/ CuboDeETL

SpecETL == Idle /\ [][NextETL]_vars

\* the dimension frame dim holds one row per distinct tuple of the columns
\* cols of the curated rows, numbered 1..N by first occurrence
DimensionDensa(dim, cols, id) ==
    LET Tupla(i) == Proj(curated[i], cols)
        Primera(t) == CHOOSE i \in DOMAIN curated :
                          Tupla(i) = t /\ \A j \in 1..(i - 1) : Tupla(j) # t
    IN /\ \A i \in DOMAIN curated :
             Cardinality({j \in DOMAIN dim : Proj(dim[j], cols) = Tupla(i)}) = 1
       /\ \A j \in DOMAIN dim : \E i \in DOMAIN curated : Tupla(i) = Proj(dim[j], cols)
       /\ {dim[j][id] : j \in DOMAIN dim} = 1..Len(dim)
       /\ \A a, b \in DOMAIN dim :
             dim[a][id] < dim[b][id] =>
                 Primera(Proj(dim[a], cols)) < Primera(Proj(dim[b], cols))

\* C3: each of the four dimension tables built from the curated rows holds
\* exactly one row per distinct value-tuple of its key columns, and its
\* surrogate keys are exactly 1..N, without gap or repeat, in the order of
\* each tuple's first occurrence in the curated rows.
C3_DimensionesDensas ==
    curated # <<>> =>
        /\ DimensionDensa(dim_docente, COLS_DOCENTE, "id_docente")
        /\ DimensionDensa(dim_materia, COLS_MATERIA, "id_materia")
        /\ DimensionDensa(dim_espacio, COLS_ESPACIO, "id_espacio")
        /\ DimensionDensa(dim_tiempo, COLS_TIEMPO, "id_tiempo")

\* three curated rows with a repeated professor and time slot gave dimensions
\* of two rows each
C3_Witness ==
    /\ Len(curated) = 3
    /\ Len(dim_docente) = 2
    /\ Len(dim_tiempo) = 2
    /\ curated[1].profesor = curated[2].profesor
    /\ curated[1].profesor # curated[3].profesor
    /\ curated[1].dia_codigo = curated[3].dia_codigo

\* the key of the one row of dim whose columns cols equal those of curated row i
IdDe(dim, cols, id, i) ==
    LET hit == {j \in DOMAIN dim : Proj(dim[j], cols) = Proj(curated[i], cols)}
    IN IF Cardinality(hit) = 1 THEN dim[CHOOSE j \in hit : TRUE][id] ELSE NaN

\* C4 as claimed: for every curated row set fact assembly ends without raising
\* and emits exactly one fact row per curated row, in order, each foreign key
\* being the key of the single dimension row with the curated row's key-tuple.
C4_HechosSinExcepcion ==
    (pc \in {"transformed", "failed", "cubo"} /\ curated # <<>>) =>
        /\ err = "ok"
        /\ Len(hechos) = Len(curated)
        /\ \A i \in DOMAIN curated :
              /\ hechos[i].id_docente = IdDe(dim_docente, COLS_DOCENTE, "id_docente", i)
              /\ hechos[i].id_materia = IdDe(dim_materia, COLS_MATERIA, "id_materia", i)
              /\ hechos[i].id_espacio = IdDe(dim_espacio, COLS_ESPACIO, "id_espacio", i)
              /\ hechos[i].id_tiempo = IdDe(dim_tiempo, COLS_TIEMPO, "id_tiempo", i)
              /\ hechos[i].nrc = curated[i].nrc

\* C5 as claimed: the cube built over the frames of transform_all has, for each
\* curated row, a row with that row's professor, clave, subject, building,
\* room, room code, day code, day name, start, end and duration.
C5_IdaYVuelta ==
    pc = "cubo" =>
        /\ Len(cubo) = Len(curated)
        /\ \A i \in DOMAIN curated :
              \A c \in {"profesor", "clave", "materia", "edificio", "aula",
                        "codigo_salon", "dia_codigo", "dia_semana", "h_inicio",
                        "h_fin", "duracion_min"} :
                  cubo[i][c] = curated[i][c]

\* the curated rows the specification describes for one raw row: one per day
\* token, the row's own cells kept, the professor, the three time fields and
\* the three room fields derived from that row's cells alone and absent when
\* the cell cannot be read
CuradasDe(r) ==
    FilasDe([h_inicio |-> parse_hora(r.hora)[1], h_fin |-> parse_hora(r.hora)[2],
             duracion_min |-> parse_hora(r.hora)[3],
             edificio |-> split_salon(r.salon)[1], aula |-> split_salon(r.salon)[2],
             codigo_salon |-> split_salon(r.salon)[3]]
            @@ [r EXCEPT !.profesor = IF r.profesor = None THEN None
                                      ELSE normalizar_profesor(r.profesor)],
            TokensDe(r.dias))

RECURSIVE CuradasEsperadas(_)
CuradasEsperadas(frame) ==
    IF frame = <<>> THEN <<>>
    ELSE CuradasDe(Head(frame)) \o CuradasEsperadas(Tail(frame))

RANGO_MALO == <<"2", "5", ":", "0", "0", "-", "2", "6", ":", "0", "0">>

\* C18 as claimed: transform_all never aborts because of a field of one row
\* that cannot be read.  Over raw rows that each name a day, a row with a bad
\* time range, a bad room code or a non-text professor is in the curated rows
\* and in the facts, only the fields derived from that cell are absent, and
\* its other fields and the other rows are as they would be without it.
C18_FallosDeCampoNoAbortan ==
    (pc \in {"transformed", "failed", "cubo"} /\ \A k \in DOMAIN raw : TokensDe(raw[k].dias) # <<>>) =>
        /\ err \notin {"MergeError", "KeyError"}
        /\ curated = CuradasEsperadas(raw)
        /\ Len(hechos) = Len(curated)
        /\ \A i \in DOMAIN curated :
              /\ hechos[i].nrc = curated[i].nrc
              /\ hechos[i].clave = curated[i].clave
              /\ hechos[i].seccion = curated[i].dias
              /\ hechos[i].duracion_min = curated[i].duracion_min
              /\ curated[i].hora = RANGO_MALO =>
                    <<curated[i].h_inicio, curated[i].h_fin, curated[i].duracion_min>> = TresNone

\* C19 as claimed: build_dim and map_id agree on the equality of keys: the
\* value-tuples of the curated rows that are equal as texts (an absent value
\* and the text "None", or tuples with one '|'-joined text) are one dimension
\* row, so no two rows of a dimension have the same text key and the
\* many-to-one lookup of map_id finds at most one row and does not raise.
C19_ClavesDeTextoUnicas ==
    (pc \in {"transformed", "failed", "cubo"} /\ curated # <<>>) =>
        /\ KeysUnique(dim_docente, <<"profesor">>)
        /\ KeysUnique(dim_materia, <<"clave", "materia">>)
        /\ KeysUnique(dim_espacio, <<"codigo_salon">>)
        /\ err # "MergeError"

CODIGOS_DIA == {<<"L">>, <<"A">>, <<"M">>, <<"J">>, <<"V">>, <<"S">>}

\* C20 as claimed: every day name DIA_MAP gives for the codes L, A, M, J, V
\* and S is one of ORDEN_DIAS, so in the cube no row with one of those six
\* day codes has an absent day of week.
C20_DiasDelMapaEnOrden ==
    pc = "cubo" =>
        \A i \in DOMAIN cubo :
            cubo[i].dia_codigo \in CODIGOS_DIA =>
                /\ \E k \in DOMAIN ORDEN_DIAS : ORDEN_DIAS[k] = DIA_MAP(cubo[i].dia_codigo)
                /\ ~IsNull(cubo[i].dia_semana)

\* curated row c is a copy of raw row r: the cells the transformation copies
CopiaDe(c, r) ==
    /\ c.nrc = r.nrc
    /\ c.clave = r.clave
    /\ c.materia = r.materia
    /\ c.dias = r.dias
    /\ c.hora = r.hora
    /\ c.salon = r.salon

\* C21 as claimed: every raw row given to transform_all is in at least one
\* curated row and at least one fact row, whatever its day field holds (an
\* empty, blank-only or absent one included): no raw row disappears when the
\* days are expanded.
C21_NingunaFilaDesaparece ==
    pc \in {"transformed", "failed", "cubo"} =>
        \A k \in DOMAIN raw :
            /\ \E i \in DOMAIN curated : CopiaDe(curated[i], raw[k])
            /\ \E i \in DOMAIN hechos :
                  /\ hechos[i].nrc = raw[k].nrc
                  /\ hechos[i].clave = raw[k].clave
                  /\ hechos[i].seccion = raw[k].dias

\* the rows of dim whose key id is v
FilasConId(dim, id, v) == {j \in DOMAIN dim : dim[j][id] = v}

\* C22: in what transform_all returns, every fact row has a present
\* id_docente, id_materia, id_espacio and id_tiempo, each the key of exactly
\* one row of the dimension returned with it and that row the one with the
\* curated row's values, also when the professor, the room or the time
\* fields of the row are absent: no lookup misses.
C22_SinFallosDeCruce ==
    pc = "transformed" =>
        /\ Len(hechos) = Len(curated)
        /\ \A i \in DOMAIN hechos :
              /\ hechos[i].id_docente # NaN
              /\ hechos[i].id_materia # NaN
              /\ hechos[i].id_espacio # NaN
              /\ hechos[i].id_tiempo # NaN
              /\ \E j \in DOMAIN dim_docente :
                    /\ FilasConId(dim_docente, "id_docente", hechos[i].id_docente) = {j}
                    /\ Proj(dim_docente[j], COLS_DOCENTE) = Proj(curated[i], COLS_DOCENTE)
              /\ \E j \in DOMAIN dim_materia :
                    /\ FilasConId(dim_materia, "id_materia", hechos[i].id_materia) = {j}
                    /\ Proj(dim_materia[j], COLS_MATERIA) = Proj(curated[i], COLS_MATERIA)
              /\ \E j \in DOMAIN dim_espacio :
                    /\ FilasConId(dim_espacio, "id_espacio", hechos[i].id_espacio) = {j}
                    /\ Proj(dim_espacio[j], COLS_ESPACIO) = Proj(curated[i], COLS_ESPACIO)
              /\ \E j \in DOMAIN dim_tiempo :
                    /\ FilasConId(dim_tiempo, "id_tiempo", hechos[i].id_tiempo) = {j}
                    /\ Proj(dim_tiempo[j], COLS_TIEMPO) = Proj(curated[i], COLS_TIEMPO)

\* two facts, the first of a row without professor, without room and without
\* a readable time range, each with its four keys
C22_Witness ==
    /\ pc = "transformed"
    /\ Len(hechos) = 2
    /\ curated[1].profesor = None
    /\ curated[1].codigo_salon = None
    /\ curated[1].h_inicio = NaT
    /\ hechos[1].id_docente = 1
    /\ hechos[1].id_espacio = 1
    /\ hechos[1].id_tiempo = 1
    /\ hechos[2].id_tiempo = 2

---------------------------------------------------------------------------
(* _to_time_safe on the values a TIME column or a caller can give it *)

\* a MySQL TIME goes from -838:59:59 to 838:59:59; the connector reads it as
\* a timedelta.  Hours from HoraDesde to HoraHasta, on the hour and the half.
HoraDesde == 0 - 2
HoraHasta == 26

CELDAS_TIEMPO ==
    {Timedelta(h * 3600 + m * 60) : h \in HoraDesde..HoraHasta, m \in {0, 30}}
    \cup {Time(h * 3600 + m * 60) : h \in 0..23, m \in {0, 30}}
    \cup {NaT}

TEXTOS_TIEMPO ==
    {hh \o <<":">> \o mm :
        hh \in {<<"0", "0">>, <<"0", "8">>, <<"2", "3">>, <<"2", "4">>, <<"2", "5">>},
        mm \in {<<"0", "0">>, <<"5", "9">>, <<"6", "0">>}}
    \cup {<<>>, <<"N", "a", "T">>, <<"N", "o", "n", "e">>, <<"x", "x">>}

\* the argument of a call: a cell of a TIME column or a text
ArgCelda(x) == [es_texto |-> FALSE, celda |-> x, texto |-> <<>>]
ArgTexto(t) == [es_texto |-> TRUE, celda |-> NaT, texto |-> t]

\* _to_time_safe(x) returned or raised
CallToTimeSafe ==
    /\ pc = "idle"
    /\ \E r \in {[arg |-> ArgCelda(x), ret |-> to_time_safe(x)] : x \in CELDAS_TIEMPO}
               \cup {[arg |-> ArgTexto(x), ret |-> to_time_safe_str(x)] : x \in TEXTOS_TIEMPO} :
          /\ call' = [fn |-> "_to_time_safe", arg |-> r.arg,
                      ret |-> IF r.ret.tipo = "ValueError" THEN NaT ELSE r.ret]
          /\ err' = IF r.ret.tipo = "ValueError" THEN "ValueError" ELSE "ok"
    /\ pc' = "returned"
    /\ UNCHANGED <<raw, curated, dim_docente, dim_materia, dim_espacio, dim_tiempo,
                   hechos, cubo, result, db>>

NextTiempo == CallToTimeSafe

SpecTiempo == Idle /\ [][NextTiempo]_vars

\* C16 as claimed: for every stored value of a time-of-day field _to_time_safe
\* never raises: a time is returned unchanged, a duration since midnight of
\* any magnitude or sign and a parseable text give a time of day or absent,
\* an unparsable or sentinel-empty input gives absent.
C16_NuncaLanza ==
    (pc = "returned" /\ call.fn = "_to_time_safe") =>
        /\ err = "ok"
        /\ call.ret.tipo \in {"time", "NaT"}
        /\ (~call.arg.es_texto /\ call.arg.celda.tipo = "time") => call.ret = call.arg.celda

---------------------------------------------------------------------------
(* split_salon on room codes *)

MaxSalonLen == 3

SALON_ALFABETO == {"A", "1", "/", " ", "-"}

SalonCodes == TextosHasta(SALON_ALFABETO, MaxSalonLen) \cup {None}

\* split_salon(s) returned
CallSplitSalon ==
    /\ pc = "idle"
    /\ \E s \in SalonCodes :
          call' = [fn |-> "split_salon", arg |-> s, ret |-> split_salon(s)]
    /\ pc' = "returned"
    /\ UNCHANGED <<tables, err>>

NextSalon == CallSplitSalon

SpecSalon == Idle /\ [][NextSalon]_vars

\* the position of the first '/' of s, 0 when there is none
PrimeraBarra(s) ==
    IF \E i \in DOMAIN s : s[i] = "/"
    THEN CHOOSE i \in DOMAIN s : s[i] = "/" /\ \A j \in 1..(i - 1) : s[j] # "/"
    ELSE 0

\* the split as the specification words it
SalonSegunSpec(s) ==
    IF s = None THEN <<None, None, None>>
    ELSE IF s = <<>> \/ s[1] = "/" THEN <<None, None, s>>
    ELSE IF PrimeraBarra(s) = 0 THEN <<s, None, s>>
    ELSE <<SubSeq(s, 1, PrimeraBarra(s) - 1),
           IF PrimeraBarra(s) = Len(s) THEN None ELSE From(s, PrimeraBarra(s) + 1),
           s>>

\* C17 as claimed: for a text s split_salon returns the text before the
\* first '/' as building, the whole text after the first '/' as room (absent
\* when there is no '/' or nothing follows it) and s as composite code; when
\* s is empty or starts with '/', building and room are absent and the
\* composite code is the text; for a non-text all three are absent.
C17_SplitSalon ==
    (pc = "returned" /\ call.fn = "split_salon") => call.ret = SalonSegunSpec(call.arg)

---------------------------------------------------------------------------
(* extract_all and transform_all over documents with either header spelling *)

MaxDocs == 2

\* the value of a column the frame does not have
SIN_COLUMNA == << "<sin columna>" >>

\* a table passes line 62 with the accented header or the ASCII one
ENCABEZADOS == {"acento", "ascii"}

\* the rows of a document: the base row, changed in its days or its room
FILAS_DOC ==
    {Fila(FILA_BASE[1], FILA_BASE[2], d, FILA_BASE[4], FILA_BASE[5]) : d \in DIAS_TXT}
    \cup {Fila(FILA_BASE[1], FILA_BASE[2], FILA_BASE[3], FILA_BASE[4], a) : a \in SALON_TXT}

DOCS == [encabezado : ENCABEZADOS, fila : FILAS_DOC]

RECURSIVE DocsHasta(_)
DocsHasta(n) ==
    IF n <= 1 THEN {<<d>> : d \in DOCS}
    ELSE LET m == DocsHasta(n - 1)
         IN m \cup {Append(f, d) : f \in m, d \in DOCS}

\* pd.concat(frames, ignore_index=True): the columns are the union of the
\* frames' columns, and a row has NaN in the columns its frame lacks
Concat(docs) ==
    LET Hay(e) == \E k \in DOMAIN docs : docs[k].encabezado = e
        Celda(d, e, v) ==
            IF d.encabezado = e THEN v ELSE IF Hay(e) THEN NaNTxt ELSE SIN_COLUMNA
        FilaDe(d) ==
            [nrc |-> d.fila.nrc, clave |-> d.fila.clave, materia |-> d.fila.materia,
             hora |-> d.fila.hora, profesor |-> d.fila.profesor,
             dias_acento |-> Celda(d, "acento", d.fila.dias),
             salon_acento |-> Celda(d, "acento", d.fila.salon),
             dias |-> Celda(d, "ascii", d.fila.dias),
             salon |-> Celda(d, "ascii", d.fila.salon)]
    IN MapFrame(docs, FilaDe)

\* the frame has the column "dias" and the column "días" (as "salon", "salón")
DosColumnas(frame) ==
    frame[1].dias # SIN_COLUMNA /\ frame[1].dias_acento # SIN_COLUMNA

\* line 236, rename(columns={"dias": "días", "salon": "salón"}), on a frame
\* with one spelling: the one day column and the one room column
Renombrada(r) ==
    Fila(r.profesor, <<r.clave, r.materia>>,
         IF r.dias # SIN_COLUMNA THEN r.dias ELSE r.dias_acento,
         r.hora,
         IF r.salon # SIN_COLUMNA THEN r.salon ELSE r.salon_acento)

\* On a frame with both spellings the rename leaves two columns named "días":
\* row["días"] at line 156 is then a Series, not a text, and the frame built
\* from rows with a repeated label (line 164) or the assignment of line 251
\* raises, by the version of pandas.
ERRORES_DOS_COLUMNAS == {"InvalidIndexError", "ValueError"}

\* extract_all over documents that gave rows
ExtractAllDocs ==
    /\ pc = "idle"
    /\ \E docs \in DocsHasta(MaxDocs) : raw' = Concat(docs)
    /\ pc' = "extracted"
    /\ UNCHANGED <<db, call, curated, dim_docente, dim_materia, dim_espacio, dim_tiempo,
                   hechos, err, cubo, result>>

\* transform_all raised in a frame with both spellings
TransformAllDosColumnas ==
    /\ pc = "extracted"
    /\ DosColumnas(raw)
    /\ \E e \in ERRORES_DOS_COLUMNAS : err' = e
    /\ pc' = "failed"
    /\ UNCHANGED <<db, call, raw, curated, dim_docente, dim_materia, dim_espacio,
                   dim_tiempo, hechos, cubo, result>>

\* transform_all over a frame with one spelling
TransformAllUnaColumna ==
    /\ pc = "extracted"
    /\ ~DosColumnas(raw)
    /\ \E t \in {transform_all(MapFrame(raw, Renombrada))} :
          /\ err' = t.err
          /\ curated' = t.curated
          /\ dim_docente' = t.dim_docente
          /\ dim_materia' = t.dim_materia
          /\ dim_espacio' = t.dim_espacio
          /\ dim_tiempo' = t.dim_tiempo
          /\ hechos' = t.hechos
          /\ pc' = IF t.err = "ok" THEN "transformed" ELSE "failed"
    /\ UNCHANGED <<db, call, raw, cubo, result>>

NextDocs == ExtractAllDocs \/ TransformAllDosColumnas \/ TransformAllUnaColumna

SpecDocs == Idle /\ [][NextDocs]_vars

\* the row of its own document: the cells under that document's header
DeAscii(r) == r.dias # NaNTxt /\ r.dias # SIN_COLUMNA
FilaPropia(r) ==
    Fila(r.profesor, <<r.clave, r.materia>>,
         IF DeAscii(r) THEN r.dias ELSE r.dias_acento,
         r.hora,
         IF DeAscii(r) THEN r.salon ELSE r.salon_acento)

\* C23 as claimed: over documents with the accented header and documents with
\* the ASCII header in one run, transform_all unifies the two spellings: it
\* does not raise because of them, and each curated row has the day codes and
\* room fields of its own source row, as if its document were alone.
C23_EncabezadosUnificados ==
    pc \in {"transformed", "failed"} =>
        /\ err \notin ERRORES_DOS_COLUMNAS
        /\ err = "ok" => curated = CuradasEsperadas(MapFrame(raw, FilaPropia))

---------------------------------------------------------------------------
(* main(): the runs of the ETL against the store *)

MaxCorridas == 2

\* the frames extract_all can return in a run of main: rows of FILAS_OTRAS,
\* or the empty frame when no document yields a row
RECURSIVE FramesMain(_)
FramesMain(n) ==
    IF n = 0 THEN {<<>>}
    ELSE LET m == FramesMain(n - 1)
         IN m \cup {Append(f, q) : f \in m, q \in FILAS_OTRAS}

\* main going on to transform_all whatever extract_all returned
TrasExtraer_sin_guardia(f) == "extracted"

\* lines 396-399: main returns when the frame is empty
TrasExtraer(f) == IF f = <<>> THEN "abortado" ELSE "extracted"

\* main starts on a store no run has touched: extract_all and the test of
\* raw.empty
MainExtractAll ==
    /\ pc = "idle"
    /\ \E f \in FramesMain(MaxRows) :
          /\ raw' = f
          /\ pc' = TrasExtraer(f)
    /\ db' = [db EXCEPT !.corridas = 1]
    /\ UNCHANGED <<call, curated, dim_docente, dim_materia, dim_espacio, dim_tiempo,
                   hechos, err, cubo, result>>

\* conectar_mysql()
ConectarMysql ==
    /\ pc = "transformed"
    /\ db' = [db EXCEPT !.conexiones = @ + 1]
    /\ pc' = "conectado"
    /\ UNCHANGED <<call, raw, curated, dim_docente, dim_materia, dim_espacio,
                   dim_tiempo, hechos, err, cubo, result>>

\* crear_tablas(cursor, conn): CREATE TABLE IF NOT EXISTS keeps the rows of a
\* table that exists
CrearTablas ==
    /\ pc = "conectado"
    /\ db' = [db EXCEPT !.tablas = TRUE]
    /\ pc' = "tablas"
    /\ UNCHANGED <<call, raw, curated, dim_docente, dim_materia, dim_espacio,
                   dim_tiempo, hechos, err, cubo, result>>

\* line 379: the cell as it is sent to MySQL; NaN, NaT and the texts "nan",
\* "none", "nat" and "" in any letter case are sent as NULL
CeldaSQL(c, v) ==
    IF c \in COLS_NUM \cup COLS_HORA THEN v
    ELSE IF IsNull(v) THEN None
    ELSE IF lower(v) \in {<<"n", "a", "n">>, <<"n", "o", "n", "e">>,
                          <<"n", "a", "t">>, <<>>} THEN None
    ELSE v
FilaSQL(r) == [c \in DOMAIN r |-> CeldaSQL(c, r[c])]

\* insert_dataframe(df, table_name, cursor, conn) into the rows tabla whose
\* primary key is pk: the rows after it, or the IntegrityError of a key that
\* is in the table already (the one INSERT of executemany adds no row then).
\* id_hecho is AUTO_INCREMENT: the rows get the keys after the last one.
insert_dataframe(df, tabla, pk) ==
    LET data == MapFrame(df, FilaSQL)
        ConId(i) == [id_hecho |-> Len(tabla) + i] @@ data[i]
    IN IF df = <<>> THEN [err |-> "ok", filas |-> tabla]
       ELSE IF pk = "id_hecho"
            THEN [err |-> "ok", filas |-> tabla \o [i \in 1..Len(data) |-> ConId(i)]]
       ELSE IF \E i \in DOMAIN data, j \in DOMAIN tabla : data[i][pk] = tabla[j][pk]
            THEN [err |-> "IntegrityError", filas |-> tabla]
       ELSE [err |-> "ok", filas |-> tabla \o data]

\* lines 406-410: the five calls of insert_dataframe, in order
PASOS == <<"tablas", "dim_docente", "dim_materia", "dim_espacio", "dim_tiempo",
           "cargado">>
TABLAS == <<"dim_docente", "dim_materia", "dim_espacio", "dim_tiempo",
            "hechos_horarios">>
CLAVES == <<"id_docente", "id_materia", "id_espacio", "id_tiempo", "id_hecho">>

ProfesorANombre(r) == Rename(r, "profesor", "nombreCompleto")
MateriaANombre(r) == Rename(r, "materia", "nombreMateria")

FrameDePaso(k) ==
    <<MapFrame(dim_docente, ProfesorANombre), MapFrame(dim_materia, MateriaANombre),
      dim_espacio, dim_tiempo, hechos>>[k]

\* the k-th insert_dataframe of main; after the fifth the connection is closed
InsertDataframe(k) ==
    /\ pc = PASOS[k]
    /\ \E r \in {insert_dataframe(FrameDePaso(k), db[TABLAS[k]], CLAVES[k])} :
          /\ db' = [db EXCEPT ![TABLAS[k]] = r.filas]
          /\ err' = r.err
          /\ pc' = IF r.err = "ok" THEN PASOS[k + 1] ELSE "failed"
    /\ UNCHANGED <<call, raw, curated, dim_docente, dim_materia, dim_espacio,
                   dim_tiempo, hechos, cubo, result>>

\* main is run again over the same documents against the same store:
\* extract_all returns the frame it returned before
OtraCorrida ==
    /\ \/ pc = "cargado"
       \/ pc = "failed" /\ err = "IntegrityError"
    /\ db.corridas < MaxCorridas
    /\ db' = [db EXCEPT !.corridas = @ + 1]
    /\ pc' = TrasExtraer(raw)
    /\ curated' = <<>>
    /\ dim_docente' = <<>>
    /\ dim_materia' = <<>>
    /\ dim_espacio' = <<>>
    /\ dim_tiempo' = <<>>
    /\ hechos' = <<>>
    /\ err' = "ok"
    /\ UNCHANGED <<call, raw, cubo, result>>

NextMain ==
    \/ MainExtractAll
    \/ TransformAll
    \/ ConectarMysql
    \/ CrearTablas
    \/ \E k \in DOMAIN TABLAS : InsertDataframe(k)
    \/ OtraCorrida

SpecMain == Idle /\ [][NextMain]_vars

\* C14: in every ETL run in which no document yields any row the run ends
\* before transformation: transform_all is never called, no store connection
\* is opened, no table is created and no row is inserted; nothing happens
\* after main has returned.
C14_SinDatosNoTransforma ==
    /\ []((pc # "idle" /\ raw = <<>>) =>
            /\ pc = "abortado"
            /\ err = "ok"
            /\ curated = <<>> /\ hechos = <<>>
            /\ dim_docente = <<>> /\ dim_materia = <<>>
            /\ dim_espacio = <<>> /\ dim_tiempo = <<>>
            /\ db = [DB_VACIA EXCEPT !.corridas = 1])
    /\ [][pc # "abortado"]_vars

\* a run whose extraction gave no row has ended
C14_Witness ==
    /\ pc = "abortado"
    /\ raw = <<>>
    /\ db.corridas = 1

\* the rows a single run on an empty store leaves in table k
UnaCorrida(k) == insert_dataframe(FrameDePaso(k), <<>>, CLAVES[k]).filas

\* C15 as claimed: after any number of successive runs of main over the same
\* documents against the same store, each run completes and the store holds
\* exactly the dimension and fact rows that a single run on an empty store
\* produces, no row carried over, duplicated or colliding with an earlier run.
C15_ReconstruyeDesdeCero ==
    /\ err # "IntegrityError"
    /\ pc = "cargado" => \A k \in DOMAIN TABLAS : db[TABLAS[k]] = UnaCorrida(k)

---------------------------------------------------------------------------
(* The cube over the stored tables, and the queries *)

MaxHechos == 2

\* The four dimension tables as cargar_tablas reads them: the keys are the
\* primary keys 1..N, an absent cell is NULL, a TIME cell is a timedelta.
DIM_DOCENTE_DB ==
    <<[id_docente |-> 1, nombreCompleto |-> <<"A", "n", "a">>],
      [id_docente |-> 2, nombreCompleto |-> <<"B", "o">>],
      [id_docente |-> 3, nombreCompleto |-> None]>>

DIM_MATERIA_DB ==
    <<[id_materia |-> 1, clave |-> <<"I", "C">>, nombreMateria |-> <<"A", "l", "g">>],
      [id_materia |-> 2, clave |-> <<"M", "1">>, nombreMateria |-> None]>>

DIM_ESPACIO_DB ==
    <<[id_espacio |-> 1, edificio |-> <<"1", "C", "C", "O", "4">>, aula |-> <<"2", "0", "3">>,
       codigo_salon |-> <<"1", "C", "C", "O", "4", "/", "2", "0", "3">>],
      [id_espacio |-> 2, edificio |-> None, aula |-> None, codigo_salon |-> None],
      [id_espacio |-> 3, edificio |-> <<"E", "M", "A">>, aula |-> None, codigo_salon |-> <<"E", "M", "A">>]>>

DIM_TIEMPO_DB ==
    <<[id_tiempo |-> 1, dia_codigo |-> <<"L">>, dia_semana |-> Lunes,
       h_inicio |-> Timedelta(7 * 3600), h_fin |-> Timedelta(8 * 3600 + 1800)],
      [id_tiempo |-> 2, dia_codigo |-> <<"L">>, dia_semana |-> Lunes,
       h_inicio |-> Timedelta(8 * 3600 + 1800), h_fin |-> Timedelta(10 * 3600)],
      [id_tiempo |-> 3, dia_codigo |-> <<"S">>, dia_semana |-> SabadoConAcento,
       h_inicio |-> Timedelta(7 * 3600), h_fin |-> Timedelta(8 * 3600 + 1800)],
      [id_tiempo |-> 4, dia_codigo |-> <<"M">>, dia_semana |-> Martes,
       h_inicio |-> NaT, h_fin |-> NaT]>>

\* the cells of a fact row: the four foreign keys (NaN is NULL, 9 is the key
\* of no dimension row), nrc and duracion_min
ID_DOCENTE_DB == {1, 2, 3, NaN, 9}
ID_MATERIA_DB == {1, 2, NaN}
ID_ESPACIO_DB == {1, 2, 3, NaN}
ID_TIEMPO_DB == {1, 2, 3, 4, NaN}
NRC_DB == {<<"1", "0">>, <<"1", "1">>, None}
DURACION_DB == {90, 50, NaN}

HECHO_BASE == <<1, 1, 1, 1, (<<"1", "0">>), 90>>

\* the fact rows a table can hold: a base row changed in one cell
HECHOS_DB ==
    {[HECHO_BASE EXCEPT ![1] = v] : v \in ID_DOCENTE_DB}
    \cup {[HECHO_BASE EXCEPT ![2] = v] : v \in ID_MATERIA_DB}
    \cup {[HECHO_BASE EXCEPT ![3] = v] : v \in ID_ESPACIO_DB}
    \cup {[HECHO_BASE EXCEPT ![4] = v] : v \in ID_TIEMPO_DB}
    \cup {[HECHO_BASE EXCEPT ![5] = v] : v \in NRC_DB}
    \cup {[HECHO_BASE EXCEPT ![6] = v] : v \in DURACION_DB}

\* row i of hechos_horarios; id_hecho is the AUTO_INCREMENT key
FilaHechoDB(i, h) ==
    [id_hecho |-> i, id_docente |-> h[1], id_materia |-> h[2], id_espacio |-> h[3],
     id_tiempo |-> h[4], nrc |-> h[5], clave |-> <<"I", "C">>, seccion |-> <<"L">>,
     duracion_min |-> h[6]]

RECURSIVE TablasHasta(_)
TablasHasta(n) ==
    IF n = 0 THEN {<<>>}
    ELSE LET m == TablasHasta(n - 1)
         IN m \cup {Append(f, FilaHechoDB(Len(f) + 1, h)) : f \in m, h \in HECHOS_DB}

\* build_cubo_from_db(): cargar_tablas reads the five tables, Horario_cubo
\* joins them
BuildCuboFromDb ==
    /\ pc = "idle"
    /\ \E h \in TablasHasta(MaxHechos) :
          \E c \in {Horario_cubo(h, DIM_DOCENTE_DB, DIM_MATERIA_DB, DIM_ESPACIO_DB,
                                  DIM_TIEMPO_DB, COLS_DB)} :
             /\ hechos' = h
             /\ cubo' = c.cubo
             /\ err' = c.err
             /\ pc' = IF c.err = "ok" THEN "cubo" ELSE "failed"
    /\ dim_docente' = DIM_DOCENTE_DB
    /\ dim_materia' = DIM_MATERIA_DB
    /\ dim_espacio' = DIM_ESPACIO_DB
    /\ dim_tiempo' = DIM_TIEMPO_DB
    /\ UNCHANGED <<db, call, raw, curated, result>>

\* a query returned (or raised): the call, what it gave, the cube as it was
Consulta(fn, arg, r) ==
    /\ call' = [fn |-> fn, arg |-> arg, ret |-> r.filas]
    /\ result' = r.filas
    /\ err' = r.err
    /\ pc' = "consultado"
    /\ UNCHANGED <<db, raw, curated, dim_docente, dim_materia, dim_espacio, dim_tiempo,
                   hechos, cubo>>

NOMBRE_TXT == {<<"a", "n">>, <<"O">>, <<"a", ".">>, <<"(">>, <<"z">>}
EDIFICIO_TXT == {<<"1", "c", "c", "o", "4">>, <<".">>, <<"n">>, <<"(">>}
HORA_REF_TXT == {<<"0", "8", ":", "0", "0">>, <<"0", "8", ":", "3", "0">>, <<"0", "9", ":", "0", "0">>, <<"2", "5", ":", "0", "0">>}

SlicePorDocente ==
    /\ pc = "cubo"
    /\ \E s \in NOMBRE_TXT :
          Consulta("slice_por_docente", <<s>>, slice_por_docente(cubo, s))

DiceEnEdificioHora ==
    /\ pc = "cubo"
    /\ \E b \in EDIFICIO_TXT, t \in HORA_REF_TXT :
          Consulta("dice_en_edificio_hora", <<b, t>>, dice_en_edificio_hora(cubo, b, t))

MATERIA_TXT_Q == {<<"i", "c">>, <<"A", "L">>, <<"m", "1">>, <<".">>, <<"(">>, <<"z">>}

DicePorMateria ==
    /\ pc = "cubo"
    /\ \E s \in MATERIA_TXT_Q :
          Consulta("dice_por_materia", <<s>>, dice_por_materia(cubo, s))

\* the frames a caller can pass as df_in: the rows of the cube it selects
Subframes(df) ==
    {SelectSeq(df, LAMBDA r : m[r.id_hecho]) : m \in [1..Len(df) -> BOOLEAN]}

\* drilldown_docente_dia_hora(), and drilldown_docente_dia_hora(df_in)
DrilldownDocenteDiaHora ==
    /\ pc = "cubo"
    /\ \/ /\ call' = [fn |-> "drilldown_docente_dia_hora", arg |-> <<>>,
                      ret |-> drilldown_docente_dia_hora(cubo)]
          /\ result' = drilldown_docente_dia_hora(cubo)
          /\ cubo' = CuboTrasDrilldown(cubo)
          /\ err' = "ok"
          /\ pc' = "consultado"
          /\ UNCHANGED <<db, raw, curated, dim_docente, dim_materia, dim_espacio,
                         dim_tiempo, hechos>>
       \/ \E df_in \in Subframes(cubo) :
             Consulta("drilldown_docente_dia_hora", <<df_in>>,
                      Filas(drilldown_docente_dia_hora(df_in)))

RollupHorasPorDocente ==
    /\ pc = "cubo"
    /\ \E r \in rollup_horas_por_docente(cubo) :
          Consulta("rollup_horas_por_docente", <<>>, r)

PivotDocentePorDia ==
    /\ pc = "cubo"
    /\ Consulta("pivot_docente_por_dia", <<>>, pivot_docente_por_dia(cubo))

NextCubo ==
    \/ BuildCuboFromDb
    \/ SlicePorDocente
    \/ DicePorMateria
    \/ DiceEnEdificioHora
    \/ DrilldownDocenteDiaHora
    \/ RollupHorasPorDocente
    \/ PivotDocentePorDia

SpecCubo == Idle /\ [][NextCubo]_vars

\* main.py builds one cube when it starts and serves every request from it:
\* a route handler has returned, nothing of its call is kept, and the next
\* request finds the same Horario_cubo instance
SiguientePeticion ==
    /\ pc = "consultado"
    /\ pc' = "cubo"
    /\ call' = NoCall
    /\ result' = <<>>
    /\ err' = "ok"
    /\ UNCHANGED <<db, raw, curated, dim_docente, dim_materia, dim_espacio, dim_tiempo,
                   hechos, cubo>>

NextSesion == NextCubo \/ SiguientePeticion

SpecSesion == Idle /\ [][NextSesion]_vars

\* the rows of dim whose key id is the foreign key of fact row i
FilasDeDim(dim, id, i) == {j \in DOMAIN dim : dim[j][id] = hechos[i][id]}

\* cube row i carries the columns attrs of the dimension row its fact points
\* to, or has every one of them absent when the fact points to no row
AtributosDe(dim, id, attrs, i) ==
    LET hit == FilasDeDim(dim, id, i)
    IN IF hit = {} THEN \A a \in attrs : IsNull(cubo[i][a])
       ELSE \E j \in hit : \A a \in attrs : cubo[i][a] = dim[j][a]

\* C6: the cube built by Horario_cubo has exactly one row per fact row, in the
\* fact rows' order and with the fact's own columns, whether or not each
\* foreign key matches a dimension row; where a foreign key has no match the
\* attributes of that dimension are absent in the cube row (clave then is the
\* fact's own clave) and the row is still present.
C6_UnaFilaPorHecho ==
    pc = "cubo" =>
        /\ Len(cubo) = Len(hechos)
        /\ \A i \in DOMAIN hechos :
              /\ \A c \in DOMAIN hechos[i] \ {"clave"} : cubo[i][c] = hechos[i][c]
              /\ AtributosDe(dim_docente, "id_docente", {"nombreCompleto"}, i)
              /\ AtributosDe(dim_materia, "id_materia", {"nombreMateria"}, i)
              /\ AtributosDe(dim_espacio, "id_espacio",
                             {"edificio", "aula", "codigo_salon"}, i)
              /\ AtributosDe(dim_tiempo, "id_tiempo", {"dia_codigo"}, i)
              /\ FilasDeDim(dim_materia, "id_materia", i) = {} =>
                     cubo[i].clave = hechos[i].clave
              /\ FilasDeDim(dim_tiempo, "id_tiempo", i) = {} =>
                     /\ IsNull(cubo[i].dia_semana)
                     /\ cubo[i].h_inicio = NaT
                     /\ cubo[i].h_fin = NaT

\* two facts, the first with the key of no instructor, the second with no
\* time slot: both are in the cube, the second with its instructor's name
C6_Witness ==
    /\ pc = "cubo"
    /\ Len(cubo) = 2
    /\ hechos[1].id_docente = 9
    /\ cubo[1].nombreCompleto = NaNTxt
    /\ cubo[1].edificio = <<"1", "C", "C", "O", "4">>
    /\ hechos[2].id_tiempo = NaN
    /\ cubo[2].h_inicio = NaT
    /\ cubo[2].nombreCompleto = <<"A", "n", "a">>

\* texto contains s as a substring, letter case apart, s taken literally
Contiene(texto, s) ==
    /\ ~IsNull(texto)
    /\ \E k \in 0..(Len(texto) - Len(s)) :
          \A i \in DOMAIN s : Lower(s[i]) = Lower(texto[k + i])

\* the rows of a frame as a set, absent cells alike
ComoConjunto(df) == {NormNulos(df[i]) : i \in DOMAIN df}
SinRepetidos(df) ==
    \A i, j \in DOMAIN df : i # j => NormNulos(df[i]) # NormNulos(df[j])
Ordenado(df, Menor(_, _)) ==
    \A i, j \in DOMAIN df : i < j => ~Menor(df[j], df[i])

\* C7 as claimed: for every building text b and every reference time t that
\* parses, dice_en_edificio_hora(b, t) returns exactly the distinct cube rows
\* whose building contains b (case-insensitive substring) and whose start <= t
\* <= end, and no other row, sorted by (day, start, instructor).
C7_DiceSubcadenaLiteral ==
    (pc = "consultado" /\ call.fn = "dice_en_edificio_hora"
        /\ to_time_safe_str(call.arg[2]) # NaT) =>
        LET b == call.arg[1]
            t == to_time_safe_str(call.arg[2])
            Sel(r) == /\ Contiene(r.edificio, b)
                      /\ r.h_inicio # NaT /\ r.h_fin # NaT
                      /\ r.h_inicio.seg <= t.seg /\ t.seg <= r.h_fin.seg
            Cols(r) == Proj(r, COLS_DICE)
        IN /\ err = "ok"
           /\ ComoConjunto(result) = ComoConjunto(MapFrame(SelectSeq(cubo, Sel), Cols))
           /\ SinRepetidos(result)
           /\ Ordenado(result, MenorDiaHoraDocente)

\* the rows of the instructor n whose nrc is present
ConNrc(n) == {i \in DOMAIN cubo : cubo[i].nombreCompleto = n /\ ~IsNull(cubo[i].nrc)}

MinutosDe(n) ==
    SumaSeq([i \in DOMAIN cubo |->
                IF /\ IF n = None THEN IsNull(cubo[i].nombreCompleto)
                                  ELSE cubo[i].nombreCompleto = n
                   /\ cubo[i].duracion_min # NaN
                THEN cubo[i].duracion_min ELSE 0])

\* C9: rollup_horas_por_docente returns one row per instructor (the rows with
\* no instructor name share one row), whose total minutes are the sum of
\* duracion_min over all cube rows of that instructor, absent durations
\* counted as zero, whose total hours are that sum divided by 60 rounded to
\* two decimals, and the rows are ordered by total hours descending.
C9_RollupHoras ==
    (pc = "consultado" /\ call.fn = "rollup_horas_por_docente") =>
        /\ {result[k].Nombre : k \in DOMAIN result}
               = {IF IsNull(cubo[i].nombreCompleto) THEN None
                  ELSE cubo[i].nombreCompleto : i \in DOMAIN cubo}
        /\ \A j, k \in DOMAIN result : j # k => result[j].Nombre # result[k].Nombre
        /\ \A k \in DOMAIN result :
              /\ result[k].Minutos_totales = MinutosDe(result[k].Nombre)
              /\ 60 * result[k].Horas_totales - 100 * result[k].Minutos_totales <= 30
              /\ 100 * result[k].Minutos_totales - 60 * result[k].Horas_totales <= 30
        /\ \A j, k \in DOMAIN result :
              j < k => result[j].Horas_totales >= result[k].Horas_totales

\* one instructor with a row of no duration and a row of 50 minutes: 50
\* minutes, 0.83 hours
C9_Witness ==
    /\ pc = "consultado"
    /\ call.fn = "rollup_horas_por_docente"
    /\ Len(cubo) = 2
    /\ cubo[1].duracion_min = NaN
    /\ cubo[2].duracion_min = 50
    /\ cubo[1].nombreCompleto = cubo[2].nombreCompleto
    /\ Len(result) = 1
    /\ result[1].Minutos_totales = 50
    /\ result[1].Horas_totales = 83

\* C10 as claimed: for every query text s, slice_por_docente(s) never raises
\* and returns exactly the cube rows whose instructor name contains s as a
\* case-insensitive substring (s taken literally), sorted by (day of week,
\* start time); when no row matches the result is empty.
C10_SliceSubcadenaLiteral ==
    (pc = "consultado" /\ call.fn = "slice_por_docente") =>
        LET s == call.arg[1]
            Sel(r) == Contiene(r.nombreCompleto, s)
            Cols(r) == Proj(r, COLS_SLICE)
            MenorDiaInicio(a, b) ==
                \/ DiaOrden(a.dia_semana) < DiaOrden(b.dia_semana)
                \/ /\ DiaOrden(a.dia_semana) = DiaOrden(b.dia_semana)
                   /\ HoraOrden(a.h_inicio) < HoraOrden(b.h_inicio)
        IN /\ err = "ok"
           /\ Len(result) = Len(SelectSeq(cubo, Sel))
           /\ ComoConjunto(result) = ComoConjunto(MapFrame(SelectSeq(cubo, Sel), Cols))
           /\ Ordenado(result, MenorDiaInicio)

\* C11 as claimed: for every text s, dice_por_materia(s) returns exactly the
\* distinct (clave, subject name, instructor) triples of the cube rows whose
\* subject name contains s or whose subject code contains s (case-insensitive,
\* OR), each triple once, sorted by (clave, instructor); when no row matches
\* the result is empty.
C11_DiceMateriaSubcadena ==
    (pc = "consultado" /\ call.fn = "dice_por_materia") =>
        LET s == call.arg[1]
            Sel(r) == Contiene(r.nombreMateria, s) \/ Contiene(r.clave, s)
            Cols(r) == Proj(r, COLS_MATERIA_DOCENTE)
        IN /\ err = "ok"
           /\ ComoConjunto(result) = ComoConjunto(MapFrame(SelectSeq(cubo, Sel), Cols))
           /\ SinRepetidos(result)
           /\ Ordenado(result, MenorClaveDocente)

\* the sort key of drilldown: the day's place in the fixed ordering (a day
\* outside it after the six), the start and the end (an absent time last)
ClaveDiaHora(r) ==
    <<IF \E d \in DOMAIN ORDEN_DIAS : ORDEN_DIAS[d] = r.dia_semana
      THEN CHOOSE d \in DOMAIN ORDEN_DIAS : ORDEN_DIAS[d] = r.dia_semana
      ELSE Len(ORDEN_DIAS) + 1,
      IF r.h_inicio = NaT THEN 86400 ELSE r.h_inicio.seg,
      IF r.h_fin = NaT THEN 86400 ELSE r.h_fin.seg>>

ClaveMenorIgual(x, y) ==
    \/ x[1] < y[1]
    \/ x[1] = y[1] /\ x[2] < y[2]
    \/ x[1] = y[1] /\ x[2] = y[2] /\ x[3] <= y[3]

\* C12: for every row subset (or the whole cube when none is given),
\* drilldown_docente_dia_hora returns a permutation of the input rows, no row
\* added or removed and every field unchanged, ordered by (day of week, start,
\* end) under the fixed day ordering; rows whose day is outside the ordering
\* come after all rows with a known day, and rows equal on the sort key keep
\* their input order.
C12_DrilldownPermutacionOrdenada ==
    (pc = "consultado" /\ call.fn = "drilldown_docente_dia_hora") =>
        LET df == IF call.arg = <<>> THEN cubo ELSE call.arg[1]
        IN /\ Len(result) = Len(df)
           /\ \A i \in DOMAIN df : \E k \in DOMAIN result : result[k] = df[i]
           /\ \A j, k \in DOMAIN result :
                 j < k =>
                     /\ ClaveMenorIgual(ClaveDiaHora(result[j]), ClaveDiaHora(result[k]))
                     /\ IsNull(result[j].dia_semana) => IsNull(result[k].dia_semana)
                     /\ ClaveDiaHora(result[j]) = ClaveDiaHora(result[k]) =>
                            result[j].id_hecho < result[k].id_hecho

\* the whole cube, a row on an unknown day before a Monday row: the Monday
\* row comes first in the result
C12_Witness ==
    /\ pc = "consultado"
    /\ call.fn = "drilldown_docente_dia_hora"
    /\ call.arg = <<>>
    /\ Len(cubo) = 2
    /\ IsNull(cubo[1].dia_semana)
    /\ cubo[2].dia_semana = Lunes
    /\ result = <<cubo[2], cubo[1]>>

\* C13: after any sequence of calls to the query operations, the cube held by
\* the Horario_cubo instance and its dimension and fact tables are identical,
\* in rows, row order, columns and values, to what they were right after
\* construction: no step taken once the cube is built changes any of them.
C13_ConsultasSoloLeen ==
    [][(pc \in {"cubo", "consultado"}) =>
          (UNCHANGED <<cubo, hechos, dim_docente, dim_materia, dim_espacio, dim_tiempo>>)]_vars

\* drilldown_docente_dia_hora() over the whole cube returned its two rows in
\* the other order, and the cube still has them in the order of the facts
C13_Witness ==
    /\ pc = "consultado"
    /\ call.fn = "drilldown_docente_dia_hora"
    /\ call.arg = <<>>
    /\ Len(cubo) = 2
    /\ result = <<cubo[2], cubo[1]>>
    /\ cubo[1].id_hecho = 1
    /\ cubo[2].id_hecho = 2

=============================================================================
